---- MODULE Spec2Model ----
(***************************************************************************)
(* UNAVsalseo: the per-device Quota Enforcer (src/lib/rate-limit.ts), its  *)
(* callers in the feed and the create-post page, and the Metrics           *)
(* Aggregator (computeMetrics).                                            *)
(*                                                                         *)
(* Time is Date.now() in milliseconds.  The clock only takes the values of *)
(* Instants, a grid that holds every boundary the quota arithmetic has     *)
(* (one millisecond before, at and after each window edge).                *)
(***************************************************************************)
EXTENDS Integers, Sequences, FiniteSets, TLC

\* ----- Configuration (rate-limit.ts) -----
LIKE_LIMIT_PER_POST == 5
POST_LIMIT == 3
POST_WINDOW_MS == 600000
FETCH_COOLDOWN_MS == 3000

\* ----- Storage keys (rate-limit.ts) -----
LIKES == "sg_likes"
POSTS == "sg_post_times"
LAST_FETCH == "sg_last_fetch"
STORAGE_KEYS == {LIKES, POSTS, LAST_FETCH}

\* ----- Bounds of the model -----
\* Date.now() when the model starts: more than 8 days after the epoch, so that
\* every window of the quotas and of the metrics lies after it.
StartTime == 1000000000
\* recordLike calls counted per post (the ceiling is 5, so 7 goes beyond it).
MaxLikeCalls == 7
\* Timestamps kept in the stored post sequence.
MaxStored == 4
\* Calls and clock moves in a run that draws the environment of each call.
MaxCalls == 4

\* Timestamps recorded by the create-post page in one run.
MaxRecorded == 4

PostIds == {"p1", "p2"}

\* The rows of posts the feed shows.
FeedPosts == {"p1"}
\* Like updates awaiting the Content Store's answer at one time.
MaxInflight == 2

\* Rows of analytics_events handed to computeMetrics.
MaxEvents == 4
\* created_at of the rows, in minutes after StartTime.
EventMinutes == {0, 5, 35, 40, 45}
\* user_pseudo_id of the rows; NoUser is null.
NoUser == "null"
UserIds == {"u1", "u2"}
EventNames == {"session_start"}
RawEvents ==
    [event_name : EventNames, user_pseudo_id : UserIds \cup {NoUser},
     created_at : {StartTime + m * 60000 : m \in EventMinutes}]

\* The identities of a large table of analytics_events.
LargeCohort == 1001
Uid(i) == "c" \o ToString(i)
\* n identities with one row each, the first a of them a post_created row.
Cohort(n, a) ==
    [i \in 1..n |->
        [event_name |-> IF i <= a THEN "post_created" ELSE "session_start",
         user_pseudo_id |-> Uid(i),
         created_at |-> StartTime]]
\* Tables at and around one half of the identities having posted.
Cohorts ==
    {Cohort(10, 6), Cohort(10, 5),
     Cohort(LargeCohort - 1, LargeCohort \div 2),
     Cohort(LargeCohort, LargeCohort \div 2),
     Cohort(LargeCohort, LargeCohort \div 2 + 1)}
\* Single rows that bear on the activation rate.
ActivationRows ==
    [event_name : {"post_created", "session_start"},
     user_pseudo_id : UserIds \cup {NoUser},
     created_at : {StartTime}]

\* AnalyticsProvider mounts (page loads) on the device in one run.
MaxMounts == 3
\* trackEvent calls made by the device in one run.
MaxTracked == 5
\* What crypto.randomUUID() may give.
Uuids == {"uuid1", "uuid2"}

\* Mounts of the feed page (Home) in one browser session in one run.
MaxHomeMounts == 2
\* Posts queries of the feed awaiting their answer at one time.
MaxQueries == 2
\* Pages of posts beyond the first that the Content Store holds.
MaxPage == 2

\* Browsing contexts (tabs) of the one device; they share its localStorage.
Tabs == {"tabA", "tabB"}

\* Offsets from StartTime at which the clock is observed.
Offsets ==
    {0, 1, 500, FETCH_COOLDOWN_MS - 1, FETCH_COOLDOWN_MS, FETCH_COOLDOWN_MS + 1,
     2 * FETCH_COOLDOWN_MS,
     POST_WINDOW_MS - 1, POST_WINDOW_MS, POST_WINDOW_MS + 1,
     POST_WINDOW_MS + 500, POST_WINDOW_MS + FETCH_COOLDOWN_MS}
Instants == {StartTime + o : o \in Offsets}
\* The instants around the edges of the post window alone.
PostInstants ==
    {StartTime + o : o \in {0, 1, 500, POST_WINDOW_MS - 1, POST_WINDOW_MS,
                            POST_WINDOW_MS + 1, POST_WINDOW_MS + 500}}

\* A second Date.now() in the same call reads the same millisecond or the next.
LaterRead(t) == {t} \cup ({t + 1} \cap Instants)

Max(a, b) == IF a >= b THEN a ELSE b
Min(a, b) == IF a <= b THEN a ELSE b

\* Math.ceil(a / b) for b > 0 (\div floors, also for a negative a).
Ceil(a, b) == -((-a) \div b)

\* ----- localStorage items -----
Absent == [tag |-> "absent"]
Json(v) == [tag |-> "json", val |-> v]
EmptyStorage == [k \in STORAGE_KEYS |-> Absent]

\* The environment of one call: win, typeof window !== "undefined";
\* rok, getItem and JSON.parse answer; wok, localStorage.setItem accepts.
Browser == [win |-> TRUE, rok |-> TRUE, wok |-> TRUE]
Environments ==
    {Browser,
     [win |-> FALSE, rok |-> TRUE, wok |-> TRUE],
     [win |-> TRUE, rok |-> FALSE, wok |-> TRUE],
     [win |-> TRUE, rok |-> TRUE, wok |-> FALSE]}

\* ----- Helpers -----
\* getJSON: the fallback without a window, for a missing item, and when
\* getItem or JSON.parse throws.
getJSON(ls, key, fallback, env) ==
    IF ~env.win THEN fallback
    ELSE IF ~env.rok THEN fallback
    ELSE IF ls[key].tag = "json" THEN ls[key].val
    ELSE fallback

\* setJSON: nothing without a window; else setItem, which stores or throws.
setJSON(ls, key, value, env) ==
    IF ~env.win THEN [ls |-> ls, threw |-> FALSE]
    ELSE IF ~env.wok THEN [ls |-> ls, threw |-> TRUE]
    ELSE [ls |-> [ls EXCEPT ![key] = Json(value)], threw |-> FALSE]

\* ----- LIKES -----
NoLikes == [p \in {} |-> 0]

\* likes[postId] ?? 0
LikesOf(likes, postId) == IF postId \in DOMAIN likes THEN likes[postId] ELSE 0

getLikesGiven(ls, postId, env) == LikesOf(getJSON(ls, LIKES, NoLikes, env), postId)

remainingLikes(ls, postId, env) ==
    Max(0, LIKE_LIMIT_PER_POST - getLikesGiven(ls, postId, env))

\* Mutant: the ceiling compared with <= instead of <.
canLikePostInclusive(ls, postId, env) ==
    getLikesGiven(ls, postId, env) <= LIKE_LIMIT_PER_POST

canLikePost(ls, postId, env) == getLikesGiven(ls, postId, env) < LIKE_LIMIT_PER_POST

\* Mutant: the new count written into a fresh map, dropping the other posts.
recordLikeFreshMap(ls, postId, env) ==
    IF ~canLikePost(ls, postId, env)
    THEN [ls |-> ls, threw |-> FALSE, ret |-> FALSE]
    ELSE LET likes == getJSON(ls, LIKES, NoLikes, env)
             likes2 == [p \in {postId} |-> LikesOf(likes, postId) + 1]
             w == setJSON(ls, LIKES, likes2, env)
         IN  [ls |-> w.ls, threw |-> w.threw, ret |-> ~w.threw]

recordLike(ls, postId, env) ==
    IF ~canLikePost(ls, postId, env)
    THEN [ls |-> ls, threw |-> FALSE, ret |-> FALSE]
    ELSE LET likes == getJSON(ls, LIKES, NoLikes, env)
             likes2 == [p \in DOMAIN likes \cup {postId} |->
                          IF p = postId THEN LikesOf(likes, postId) + 1 ELSE likes[p]]
             w == setJSON(ls, LIKES, likes2, env)
         IN  [ls |-> w.ls, threw |-> w.threw, ret |-> ~w.threw]

\* ----- POSTS -----
\* Math.min(...recent), for a non-empty recent.
MinOf(seq) == CHOOSE x \in {seq[i] : i \in DOMAIN seq} :
                  \A i \in DOMAIN seq : x <= seq[i]

\* t is the Date.now() read at line 65.
getRecentPostTimes(ls, env, t) ==
    LET times == getJSON(ls, POSTS, <<>>, env)
        InWindow(x) == t - x < POST_WINDOW_MS
    IN  SelectSeq(times, InWindow)

\* Mutant: the wait rounded down.
canPostFloor(ls, env, t1, t2) ==
    LET recent == getRecentPostTimes(ls, env, t1)
    IN  IF Len(recent) < POST_LIMIT
        THEN [allowed |-> TRUE, waitSeconds |-> 0]
        ELSE [allowed |-> FALSE,
              waitSeconds |-> (POST_WINDOW_MS - (t2 - MinOf(recent))) \div 1000]

\* t1 is the Date.now() read at line 65, t2 the one read at line 78.
canPost(ls, env, t1, t2) ==
    LET recent == getRecentPostTimes(ls, env, t1)
    IN  IF Len(recent) < POST_LIMIT
        THEN [allowed |-> TRUE, waitSeconds |-> 0]
        ELSE LET oldest == MinOf(recent)
                 waitMs == POST_WINDOW_MS - (t2 - oldest)
             IN  [allowed |-> FALSE, waitSeconds |-> Ceil(waitMs, 1000)]

\* Mutant: only the new timestamp written back.
recordPostForgets(ls, env, t1, t2) == setJSON(ls, POSTS, <<t2>>, env)

\* Mutant: a post stamped as a fetch too.
recordPostStampsFetch(ls, env, t1, t2) ==
    LET recent == getRecentPostTimes(ls, env, t1)
        w == setJSON(ls, POSTS, Append(recent, t2), env)
    IN  setJSON(w.ls, LAST_FETCH, t2, env)

\* t1 is the Date.now() read at line 65, t2 the one pushed at line 84.
recordPost(ls, env, t1, t2) ==
    LET recent == getRecentPostTimes(ls, env, t1)
    IN  setJSON(ls, POSTS, Append(recent, t2), env)

\* Mutant: the difference not held at 0.
postsRemainingUnclamped(ls, env, t) ==
    POST_LIMIT - Len(getRecentPostTimes(ls, env, t))

postsRemaining(ls, env, t) ==
    Max(0, POST_LIMIT - Len(getRecentPostTimes(ls, env, t)))

\* ----- FETCH THROTTLE -----
\* Mutant: the cooldown compared with > instead of >=.
canFetchStrict(ls, env, t) == t - getJSON(ls, LAST_FETCH, 0, env) > FETCH_COOLDOWN_MS

\* Mutant: a missing last-fetch item read as "fetched just now".
canFetchFallbackNow(ls, env, t) == t - getJSON(ls, LAST_FETCH, t, env) >= FETCH_COOLDOWN_MS

canFetch(ls, env, t) == t - getJSON(ls, LAST_FETCH, 0, env) >= FETCH_COOLDOWN_MS

recordFetch(ls, env, t) == setJSON(ls, LAST_FETCH, t, env)

\* ----- Identity (identity.ts) -----
STORAGE_KEY == "sg_user_pseudo_id"

\* An item holding a string, as localStorage.getItem gives it; Absent is null.
Str(v) == [tag |-> "string", val |-> v]

\* !item: null and the empty string are falsy.
Falsy(item) == item = Absent \/ item.val = ""

isFirstVisit(item) == Falsy(item)

\* Mutant: the stored identifier never read, a new one made at every call.
getUserIdAnew(item, uuid) == [id |-> uuid, item |-> Str(uuid), wrote |-> TRUE]

\* item is the stored identifier, uuid what crypto.randomUUID() would give:
\* the identifier returned, the item afterwards, and whether setItem ran.
getUserId(item, uuid) ==
    IF Falsy(item)
    THEN [id |-> uuid, item |-> Str(uuid), wrote |-> TRUE]
    ELSE [id |-> item.val, item |-> item, wrote |-> FALSE]

\* ----- AnalyticsProvider (components/AnalyticsProvider.tsx) -----
SESSION_KEY == "sg_last_session_ts"
SESSION_GAP_MS == 1800000

\* Number.prototype.toString() of a non-negative integer: its decimal digits.
RECURSIVE toString(_)
toString(n) == IF n < 10 THEN <<n>> ELSE Append(toString(n \div 10), n % 10)

\* parseInt(digits, 10) of a string of decimal digits.
RECURSIVE parseInt(_)
parseInt(digits) ==
    IF Len(digits) = 1 THEN digits[1]
    ELSE 10 * parseInt(SubSeq(digits, 1, Len(digits) - 1)) + digits[Len(digits)]

\* Mutant: the identifier created before the first-visit test.
DetectFirstVisitLate(item, uuid) ==
    LET g == getUserId(item, uuid)
    IN  [isNew |-> isFirstVisit(g.item), got |-> g]

\* Lines 24-25: isFirstVisit(), then getUserId().
DetectFirstVisit(item, uuid) ==
    [isNew |-> isFirstVisit(item), got |-> getUserId(item, uuid)]

\* Mutant: the throttle compared with >= instead of >.
SessionDueAtGap(lastSession, t) ==
    \/ lastSession = Absent
    \/ lastSession.val = <<>>
    \/ t - parseInt(lastSession.val) >= SESSION_GAP_MS

\* Line 34: !lastSession || now - parseInt(lastSession, 10) > SESSION_GAP_MS,
\* the item being null, the empty string or a string of digits.
SessionDue(lastSession, t) ==
    \/ lastSession = Absent
    \/ lastSession.val = <<>>
    \/ t - parseInt(lastSession.val) > SESSION_GAP_MS

\* ----- computeMetrics (admin/dashboard/metrics/page.tsx) -----
MS_24H == 86400000
MS_48H == 172800000
MS_7D == 604800000
MS_8D == 691200000
SESSION_GAP == 1800000

\* created_at as a row holds it: the milliseconds of a date, or NullDate for
\* null, or BadDate for a missing or unparseable string.
NullDate == -1
BadDate == -2
\* NaN among the numbers of computeMetrics; no arithmetic on the dates of the
\* model gives this value.
NaN == -2000000000

\* new Date(created_at).getTime(): 0 for null, NaN for an invalid date.
getTime(created_at) ==
    IF created_at = NullDate THEN 0
    ELSE IF created_at = BadDate THEN NaN
    ELSE created_at

\* Arithmetic and comparison of numbers: NaN in, NaN out; NaN compares false.
Minus(a, b) == IF a = NaN \/ b = NaN THEN NaN ELSE a - b
Plus(a, b) == IF a = NaN \/ b = NaN THEN NaN ELSE a + b
Lt(a, b) == a # NaN /\ b # NaN /\ a < b
Gt(a, b) == a # NaN /\ b # NaN /\ a > b
Ge(a, b) == a # NaN /\ b # NaN /\ a >= b

\* Math.round(x * 10) for x = num / den, that is a rate in tenths:
\* Math.round rounds a half up.  (Quotient and remainder apart, so that no
\* product leaves the machine's integers.)
RoundTenths(num, den) ==
    IF num = NaN THEN NaN
    ELSE 10 * (num \div den) + (20 * (num % den) + den) \div (2 * den)

\* Math.round(x * 100) for x = num / den.
RoundHundredths(num, den) == (200 * num + den) \div (2 * den)

\* Math.round(x) for x = num / den, also for a negative x.
RoundUnits(num, den) == (2 * num + den) \div (2 * den)

\* events.filter((e) => e.event_name === name)
Named(events, name) ==
    LET Is(e) == e.event_name = name
    IN  SelectSeq(events, Is)

\* new Set(rows.map((e) => e.user_pseudo_id).filter(Boolean)); also the keys
\* of byUser: rows without a user id are skipped.
UsersOf(events) == {events[i].user_pseudo_id : i \in DOMAIN events} \ {NoUser}

\* Lines 104-111: the unrounded activation rate, as a fraction.
activationRate(events) ==
    LET uniqueVisits == Cardinality(UsersOf(events))
        activatedUsers == UsersOf(Named(events, "post_created"))
    IN  IF uniqueVisits > 0
        THEN [num |-> Cardinality(activatedUsers) * 100, den |-> uniqueVisits]
        ELSE [num |-> 0, den |-> 1]

\* Line 250: activationRate > 50, on the unrounded rate.
activationGoalMet(events) ==
    activationRate(events).num > 50 * activationRate(events).den

\* Lines 119-124 and 185-190: the users with a row less than 24 h old at t.
ActiveLast24h(events, t) ==
    LET Recent(e) == Lt(Minus(t, getTime(e.created_at)), MS_24H)
    IN  UsersOf(SelectSeq(events, Recent))

\* A posts row's likes when the column is null.
NullLikes == -1

\* posts.reduce((s, p) => s + (p.likes ?? 0), 0)
RECURSIVE TotalLikes(_)
TotalLikes(posts) ==
    IF posts = <<>> THEN 0
    ELSE TotalLikes(SubSeq(posts, 1, Len(posts) - 1))
           + (IF posts[Len(posts)].likes = NullLikes THEN 0 ELSE posts[Len(posts)].likes)

\* byUser[uid]: the times of uid's rows, in the order of the input.
ByUser(events, uid) ==
    LET Mine(e) == e.user_pseudo_id = uid
        rows == SelectSeq(events, Mine)
    IN  [i \in 1..Len(rows) |-> getTime(rows[i].created_at)]

\* times.sort((a, b) => a - b) on numbers: ascending, by insertion from the
\* left.
RECURSIVE InsertSorted(_, _)
InsertSorted(sorted, x) ==
    IF sorted = <<>> THEN <<x>>
    ELSE IF x < Head(sorted) THEN <<x>> \o sorted
    ELSE <<Head(sorted)>> \o InsertSorted(Tail(sorted), x)

RECURSIVE SortAscending(_)
SortAscending(times) ==
    IF times = <<>> THEN <<>>
    ELSE InsertSorted(SortAscending(SubSeq(times, 1, Len(times) - 1)),
                      times[Len(times)])

\* Mutant: the per-user times left in input order.
SortedTimesUnsorted(times) == times

SortedTimes(times) == SortAscending(times)

\* The rows in the order ord, a permutation of their indices.
Reordered(events, ord) == [i \in 1..Len(events) |-> events[ord[i]]]
NoReorder(events) == [i \in 1..Len(events) |-> i]

\* Line 154 for uid.  With a NaN among the times the comparator a - b is not
\* an ordering and the engine may leave the times in any order: the one of
\* ord.
SortOf(events, uid, ord) ==
    LET times == ByUser(events, uid)
    IN  IF \E i \in DOMAIN times : times[i] = NaN
        THEN ByUser(Reordered(events, ord), uid)
        ELSE SortedTimes(times)

\* The orders a sort may leave: any, when some row has no valid date.
SortOrders(events) ==
    IF \E i \in DOMAIN events : getTime(events[i].created_at) = NaN
    THEN Permutations(1..Len(events))
    ELSE {NoReorder(events)}

\* Mutant: a gap of exactly 30 minutes splits too.
NewSessionAtGap(t, lastEvent) == Ge(Minus(t, lastEvent), SESSION_GAP)

\* Line 159: times[i] - lastEvent > SESSION_GAP.
NewSession(t, lastEvent) == Gt(Minus(t, lastEvent), SESSION_GAP)

\* The loop of lines 158-166 from index i on; acc holds totalSessionMs,
\* sessionCount and, for the record, each closed session's duration.
RECURSIVE SessionLoop(_, _, _, _, _)
SessionLoop(times, i, sessionStart, lastEvent, acc) ==
    IF i > Len(times)
    THEN \* close last session
         [totalSessionMs |-> Plus(acc.totalSessionMs, Minus(lastEvent, sessionStart)),
          sessionCount |-> acc.sessionCount + 1,
          durations |-> Append(acc.durations, Minus(lastEvent, sessionStart))]
    ELSE IF NewSession(times[i], lastEvent)
    THEN \* close previous session
         SessionLoop(times, i + 1, times[i], times[i],
                     [totalSessionMs |->
                          Plus(acc.totalSessionMs, Minus(lastEvent, sessionStart)),
                      sessionCount |-> acc.sessionCount + 1,
                      durations |-> Append(acc.durations, Minus(lastEvent, sessionStart))])
    ELSE SessionLoop(times, i + 1, sessionStart, times[i], acc)

NoSessions == [totalSessionMs |-> 0, sessionCount |-> 0, durations |-> <<>>]

\* The loop over byUser, lines 153-170: the keys come in the order of each
\* user's first row.  Rows lo..hi are gone through by halves, a row that is
\* the first of its user standing for the key, and the sums of the halves
\* added.
RECURSIVE SessionsOver(_, _, _, _)
SessionsOver(events, ord, lo, hi) ==
    IF lo > hi THEN NoSessions
    ELSE IF lo = hi
    THEN LET uid == events[lo].user_pseudo_id
         IN  IF uid = NoUser \/ \E j \in 1..(lo - 1) : events[j].user_pseudo_id = uid
             THEN NoSessions
             ELSE LET times == SortOf(events, uid, ord)
                  IN  SessionLoop(times, 2, times[1], times[1], NoSessions)
    ELSE LET mid == (lo + hi) \div 2
             left == SessionsOver(events, ord, lo, mid)
             right == SessionsOver(events, ord, mid + 1, hi)
         IN  [totalSessionMs |-> Plus(left.totalSessionMs, right.totalSessionMs),
              sessionCount |-> left.sessionCount + right.sessionCount,
              durations |-> left.durations \o right.durations]

Sessions(events, ord) == SessionsOver(events, ord, 1, Len(events))

\* Mutant: the window closed at its older end and open at its younger one.
ActiveWeekAgoOlderEnd(events, t) ==
    LET WeekOld(e) ==
            /\ Gt(Minus(t, getTime(e.created_at)), MS_7D)
            /\ ~Gt(Minus(t, getTime(e.created_at)), MS_8D)
    IN  UsersOf(SelectSeq(events, WeekOld))

\* Lines 176-184: the users with a row whose age at t is at least 7 days and
\* less than 8.
ActiveWeekAgo(events, t) ==
    LET WeekOld(e) ==
            /\ Ge(Minus(t, getTime(e.created_at)), MS_7D)
            /\ Lt(Minus(t, getTime(e.created_at)), MS_8D)
    IN  UsersOf(SelectSeq(events, WeekOld))

\* Lines 191-197, in tenths.
\* Mutant: every user not seen in the last 24 hours counted as churned.
churnRateOfAllUsers(events, t) ==
    LET activeWeekAgo == ActiveWeekAgo(events, t)
        churnedUsers == UsersOf(events) \ ActiveLast24h(events, t)
    IN  IF Cardinality(activeWeekAgo) > 0
        THEN RoundTenths(Cardinality(churnedUsers) * 100, Cardinality(activeWeekAgo))
        ELSE 0

churnRate(events, t) ==
    LET activeWeekAgo == ActiveWeekAgo(events, t)
        churnedUsers == activeWeekAgo \ ActiveLast24h(events, t)
    IN  IF Cardinality(activeWeekAgo) > 0
        THEN RoundTenths(Cardinality(churnedUsers) * 100, Cardinality(activeWeekAgo))
        ELSE 0

\* Lines 202-212 for one user, from row i on.  cur is <<>> while
\* firstVisitByUser[uid] is undefined and <<time>> once it is set; a time of
\* 0 or NaN is as falsy as undefined.
RECURSIVE FirstVisitFrom(_, _, _, _)
FirstVisitFrom(events, uid, i, cur) ==
    IF i > Len(events) THEN cur
    ELSE LET e == events[i]
             t == getTime(e.created_at)
         IN  IF /\ e.event_name = "first_visit"
                /\ e.user_pseudo_id = uid
                /\ \/ cur = <<>>
                   \/ cur[1] = 0
                   \/ cur[1] = NaN
                   \/ Lt(t, cur[1])
             THEN FirstVisitFrom(events, uid, i + 1, <<t>>)
             ELSE FirstVisitFrom(events, uid, i + 1, cur)

firstVisitByUser(events, uid) == FirstVisitFrom(events, uid, 1, <<>>)[1]

\* Mutant: only a first visit more than 24 hours old makes eligible.
EligibleDay1Strict(events, t) ==
    {uid \in UsersOf(Named(events, "first_visit")) :
        Gt(Minus(t, firstVisitByUser(events, uid)), MS_24H)}

\* Line 219: the users the loop does not skip.
EligibleDay1(events, t) ==
    {uid \in UsersOf(Named(events, "first_visit")) :
        ~Lt(Minus(t, firstVisitByUser(events, uid)), MS_24H)}

\* Lines 222-229.
ReturnedDay1(events, t) ==
    {uid \in EligibleDay1(events, t) :
        LET firstTime == firstVisitByUser(events, uid)
        IN  \E i \in DOMAIN events :
               /\ events[i].user_pseudo_id = uid
               /\ events[i].event_name # "first_visit"
               /\ Ge(getTime(events[i].created_at), Plus(firstTime, MS_24H))
               /\ Lt(getTime(events[i].created_at), Plus(firstTime, MS_48H))}

\* Lines 231-232, in tenths.
day1Retention(events, t) ==
    LET eligibleDay1 == Cardinality(EligibleDay1(events, t))
        returnedDay1 == Cardinality(ReturnedDay1(events, t))
    IN  IF eligibleDay1 > 0 THEN RoundTenths(returnedDay1 * 100, eligibleDay1) ELSE 0

\* feedback.filter((f) => f.rating === rating).length
Rated(feedback, rating) ==
    LET Is(f) == f.rating = rating
    IN  Len(SelectSeq(feedback, Is))

\* Mutant: the score taken over the happy and sad rows alone.
npsScoreOfRespondents(feedback) ==
    LET decided == Rated(feedback, "happy") + Rated(feedback, "sad")
    IN  IF decided > 0
        THEN RoundUnits((Rated(feedback, "happy") - Rated(feedback, "sad")) * 100, decided)
        ELSE 0

\* Lines 239-245.
npsScore(feedback) ==
    LET totalFeedback == Len(feedback)
    IN  IF totalFeedback > 0
        THEN RoundUnits((Rated(feedback, "happy") - Rated(feedback, "sad")) * 100,
                        totalFeedback)
        ELSE 0

\* Mutant: the division made without the guard, 0 / 0 being NaN.
avgSessionLengthMinUnguarded(s) ==
    IF s.sessionCount = 0 THEN NaN
    ELSE RoundTenths(s.totalSessionMs, s.sessionCount * 60000)

\* Lines 171-172 and 257, in tenths of a minute.
avgSessionLengthMin(s) ==
    IF s.sessionCount > 0
    THEN RoundTenths(s.totalSessionMs, s.sessionCount * 60000)
    ELSE 0

\* Mutant: every row that is not a share counted as a view.
totalViewsOfAllButShares(events) == Len(events) - Len(Named(events, "share_post"))

\* Lines 132-134: the session_start and first_visit rows.
totalViews(events) ==
    Len(Named(events, "session_start")) + Len(Named(events, "first_visit"))

\* The snapshot of lines 247-267 at Date.now() = t.  Rates are held in tenths
\* (60.0 is 600), viralCoefficient in hundredths.
computeMetrics(events, feedback, posts, t, ord) ==
    LET uniqueVisits == Cardinality(UsersOf(events))
        totalLikes == TotalLikes(posts)
        totalShares == Len(Named(events, "share_post"))
    IN  [uniqueVisits |-> uniqueVisits,
         activationRate |->
             RoundTenths(activationRate(events).num, activationRate(events).den),
         activationGoalMet |-> activationGoalMet(events),
         totalQrScans |-> Len(Named(events, "qr_scan")),
         dau |-> Cardinality(ActiveLast24h(events, t)),
         totalPosts |-> Len(posts),
         totalLikes |-> totalLikes,
         totalShares |-> totalShares,
         engagementRate |->
             IF totalViews(events) > 0
             THEN RoundTenths((totalLikes + totalShares) * 100, totalViews(events))
             ELSE 0,
         avgSessionLengthMin |-> avgSessionLengthMin(Sessions(events, ord)),
         churnRate |-> churnRate(events, t),
         day1Retention |-> day1Retention(events, t),
         viralCoefficient |->
             IF uniqueVisits > 0 THEN RoundHundredths(totalShares, uniqueVisits) ELSE 0,
         npsScore |-> npsScore(feedback),
         npsThresholdMet |-> npsScore(feedback) > 40,
         happyCount |-> Rated(feedback, "happy"),
         normalCount |-> Rated(feedback, "normal"),
         sadCount |-> Rated(feedback, "sad"),
         totalFeedback |-> Len(feedback)]

EMPTY_METRICS ==
    [uniqueVisits |-> 0,
     activationRate |-> 0,
     activationGoalMet |-> FALSE,
     totalQrScans |-> 0,
     dau |-> 0,
     totalPosts |-> 0,
     totalLikes |-> 0,
     totalShares |-> 0,
     engagementRate |-> 0,
     avgSessionLengthMin |-> 0,
     churnRate |-> 0,
     day1Retention |-> 0,
     viralCoefficient |-> 0,
     npsScore |-> 0,
     npsThresholdMet |-> FALSE,
     happyCount |-> 0,
     normalCount |-> 0,
     sadCount |-> 0,
     totalFeedback |-> 0]

VARIABLES
    now,            \* Date.now()
    localStorage,   \* the device's localStorage, STORAGE_KEYS -> item
    last,           \* the last call: its name, argument, clock reads, result
    likeCalls,      \* per post, the recordLike calls made so far
    fetchAt,        \* Date.now() of the latest recordFetch, 0 before the first
    overwrote,      \* a recordFetch was made while canFetch was false
    calls,          \* steps taken, where a specification budgets them
    pc,             \* per tab, where its handleSubmit is: idle, upload, insert
    submitting,     \* per tab, CreatePost's state of that name
    rateLimited,    \* per tab, CreatePost's state of that name
    waitSeconds,    \* per tab, CreatePost's state of that name
    outcome,        \* per tab, how its last handleSubmit ended
    recorded,       \* every timestamp handleSubmit had recordPost push, in order
    tracked,        \* trackEvent("post_created") calls made
    inserted,       \* rows inserted into posts
    posts,          \* per tab, Home's posts state: the likes it shows per post
    likesLeft,      \* per tab, Home's likesLeft state
    dbLikes,        \* the Content Store: posts.likes per row
    updates,        \* like updates sent and not yet answered
    likesApplied,   \* per post, the like updates the Content Store accepted
    events,         \* the rows of analytics_events the dashboard fetches
    feedback,       \* the rows of feedback it fetches
    postRows,       \* the rows of posts it fetches
    metrics,        \* the dashboard's metrics state
    computedFrom,   \* the events the last computeMetrics was given
    computedWith,   \* its other inputs: feedback, posts, Date.now()
    pseudoIdItem,   \* localStorage's item sg_user_pseudo_id
    sessionItem,    \* localStorage's item sg_last_session_ts
    trackCalls,     \* the trackEvent calls of the device, in order
    mounts,         \* AnalyticsProvider mounts so far
    lastMount,      \* what the latest mount found and did
    returnedIds,    \* every identifier getUserId has returned
    idWrites,       \* setItem calls made by getUserId
    home,           \* the feed page (Home): its state, refs and timers
    queries,        \* its posts queries awaiting their answer, in order of issue
    feedbackItem,   \* sessionStorage's item sg_feedback_shown
    fetchStarts,    \* every feed fetch started: by the load or a refresh, and when
    shows           \* every time the feedback modal opened, and its mount's time

\* What the calls of one policy leave alone.
likeHistory == <<likeCalls>>
fetchHistory == <<fetchAt, overwrote>>
history == <<likeHistory, fetchHistory>>
createVars == <<pc, submitting, rateLimited, waitSeconds, outcome,
                recorded, tracked, inserted>>
feedVars == <<posts, likesLeft, dbLikes, updates, likesApplied>>
metricVars == <<events, feedback, postRows, metrics, computedFrom, computedWith>>
analyticsVars == <<pseudoIdItem, sessionItem, trackCalls, mounts, lastMount,
                   returnedIds, idWrites>>
homeVars == <<home, queries, feedbackItem, fetchStarts, shows>>
pageVars == <<analyticsVars, homeVars>>
vars == <<now, localStorage, last, history, calls, createVars, feedVars, metricVars,
          pageVars>>

\* last.pre is the localStorage the call found, t1 and t2 its first and last
\* Date.now() reads, recent what getRecentPostTimes gave it.
NoCall == [op |-> "none", arg |-> "-", env |-> Browser, pre |-> EmptyStorage,
           t1 |-> StartTime, t2 |-> StartTime, ret |-> FALSE, threw |-> FALSE,
           recent |-> <<>>]

Call(op, arg, env, t1, t2, ret, threw) ==
    [op |-> op, arg |-> arg, env |-> env, pre |-> localStorage,
     t1 |-> t1, t2 |-> t2, ret |-> ret, threw |-> threw, recent |-> <<>>]

PostCall(op, env, t1, t2, ret, threw) ==
    [Call(op, "-", env, t1, t2, ret, threw)
        EXCEPT !.recent = getRecentPostTimes(localStorage, env, t1)]

\* Before the first computeMetrics: the state is EMPTY_METRICS.
\* Before the first mount.
NotMounted ==
    [n |-> 0, at |-> StartTime, idBefore |-> Absent, sessionBefore |-> Absent,
     isNew |-> FALSE, first |-> FALSE, session |-> FALSE, qr |-> FALSE]

\* Home as useState and useRef initialise it (lines 26-48); n counts its
\* mounts.  pages stands for the posts state: the pages of rows it holds.
\* cooldownTimers and feedbackTimer are the times at which the timeouts of
\* lines 129 and 208 are due, 0 being no timeout.
HomeState(n, isMounted, t) ==
    [mounted |-> isMounted, n |-> n, mountedAt |-> t,
     loading |-> TRUE, loadingMore |-> FALSE, hasMore |-> TRUE,
     refreshCooldown |-> FALSE, refreshing |-> FALSE, showFeedback |-> FALSE,
     pages |-> <<>>, pageRef |-> 0, isFetchingRef |-> FALSE, refreshingRef |-> FALSE,
     cooldownTimers |-> {}, feedbackTimer |-> 0]

NotComputed == [done |-> FALSE, feedback |-> <<>>, posts |-> <<>>, now |-> StartTime]

Init ==
    /\ now = StartTime
    /\ localStorage = EmptyStorage
    /\ last = NoCall
    /\ likeCalls = [p \in PostIds |-> 0]
    /\ fetchAt = 0
    /\ overwrote = FALSE
    /\ calls = 0
    /\ pc = [t \in Tabs |-> "idle"]
    /\ submitting = [t \in Tabs |-> FALSE]
    /\ rateLimited = [t \in Tabs |-> FALSE]
    /\ waitSeconds = [t \in Tabs |-> 0]
    /\ outcome = [t \in Tabs |-> "none"]
    /\ recorded = <<>>
    /\ tracked = 0
    /\ inserted = 0
    /\ posts = [t \in Tabs |-> [p \in FeedPosts |-> 0]]
    /\ likesLeft = [t \in Tabs |-> [p \in FeedPosts |-> LIKE_LIMIT_PER_POST]]
    /\ dbLikes = [p \in FeedPosts |-> 0]
    /\ updates = {}
    /\ likesApplied = [p \in FeedPosts |-> 0]
    /\ events = <<>>
    /\ feedback = <<>>
    /\ postRows = <<>>
    /\ metrics = EMPTY_METRICS
    /\ computedFrom = <<>>
    /\ computedWith = NotComputed
    /\ pseudoIdItem = Absent
    /\ sessionItem = Absent
    /\ trackCalls = <<>>
    /\ mounts = 0
    /\ lastMount = NotMounted
    /\ returnedIds = {}
    /\ idWrites = 0
    /\ home = HomeState(0, FALSE, StartTime)
    /\ queries = <<>>
    /\ feedbackItem = Absent
    /\ fetchStarts = <<>>
    /\ shows = <<>>

\* Time passes between calls.
TickWithin(S) ==
    /\ \E t \in S : t > now /\ now' = t
    /\ UNCHANGED <<localStorage, last, history>>

Tick == TickWithin(Instants)

GetLikesGiven(env) ==
    \E p \in PostIds :
        /\ last' = Call("getLikesGiven", p, env, now, now,
                        getLikesGiven(localStorage, p, env), FALSE)
        /\ UNCHANGED <<now, localStorage, history>>

RemainingLikes(env) ==
    \E p \in PostIds :
        /\ last' = Call("remainingLikes", p, env, now, now,
                        remainingLikes(localStorage, p, env), FALSE)
        /\ UNCHANGED <<now, localStorage, history>>

CanLikePost(env) ==
    \E p \in PostIds :
        /\ last' = Call("canLikePost", p, env, now, now,
                        canLikePost(localStorage, p, env), FALSE)
        /\ UNCHANGED <<now, localStorage, history>>

RecordLike(env) ==
    \E p \in PostIds :
        /\ likeCalls[p] < MaxLikeCalls
        /\ LET r == recordLike(localStorage, p, env)
           IN  /\ localStorage' = r.ls
               /\ last' = Call("recordLike", p, env, now, now, r.ret, r.threw)
        /\ likeCalls' = [likeCalls EXCEPT ![p] = @ + 1]
        /\ UNCHANGED <<now, fetchHistory>>

CanPost(env) ==
    \E t2 \in LaterRead(now) :
        /\ last' = PostCall("canPost", env, now, t2,
                            canPost(localStorage, env, now, t2), FALSE)
        /\ now' = t2
        /\ UNCHANGED <<localStorage, history>>

RecordPost(env) ==
    \E t2 \in LaterRead(now) :
        /\ Len(getRecentPostTimes(localStorage, env, now)) < MaxStored
        /\ LET w == recordPost(localStorage, env, now, t2)
           IN  /\ localStorage' = w.ls
               /\ last' = PostCall("recordPost", env, now, t2, "void", w.threw)
        /\ now' = t2
        /\ UNCHANGED history

PostsRemaining(env) ==
    /\ last' = PostCall("postsRemaining", env, now, now,
                        postsRemaining(localStorage, env, now), FALSE)
    /\ UNCHANGED <<now, localStorage, history>>

CanFetch(env) ==
    /\ last' = Call("canFetch", "-", env, now, now,
                    canFetch(localStorage, env, now), FALSE)
    /\ UNCHANGED <<now, localStorage, history>>

RecordFetch(env) ==
    /\ LET w == recordFetch(localStorage, env, now)
       IN  /\ localStorage' = w.ls
           /\ last' = Call("recordFetch", "-", env, now, now, "void", w.threw)
    /\ fetchAt' = now
    /\ overwrote' = (overwrote \/ ~canFetch(localStorage, env, now))
    /\ UNCHANGED <<now, likeHistory>>

\* A step of a specification that budgets its steps, and one of a specification
\* that does not.
Budgeted(A) ==
    /\ calls < MaxCalls
    /\ calls' = calls + 1
    /\ A
    /\ UNCHANGED <<createVars, feedVars, metricVars, pageVars>>
Free(A) == A /\ UNCHANGED <<calls, createVars, feedVars, metricVars, pageVars>>

\* The like policy on one device, in the browser, with a working store.
NextLikes ==
    \/ Free(Tick)
    \/ Free(GetLikesGiven(Browser))
    \/ Free(RemainingLikes(Browser))
    \/ Free(CanLikePost(Browser))
    \/ Free(RecordLike(Browser))

SpecLikes == Init /\ [][NextLikes]_vars

\* The post-creation policy as the library offers it: recordPost may be called
\* whether or not canPost was asked.
NextPosts ==
    \/ Free(Tick)
    \/ Free(CanPost(Browser))
    \/ Free(RecordPost(Browser))
    \/ Free(PostsRemaining(Browser))

SpecPosts == Init /\ [][NextPosts]_vars

\* recordPost called as its callers are expected to: only when canPost, asked
\* at that moment, allows.
CheckedRecordPost(env) ==
    /\ canPost(localStorage, env, now, now).allowed
    /\ RecordPost(env)

\* The post-creation policy under check-before-record attempts.
NextAttempts ==
    \/ Free(TickWithin(PostInstants))
    \/ Free(CanPost(Browser))
    \/ Free(CheckedRecordPost(Browser))
    \/ Free(PostsRemaining(Browser))

SpecAttempts == Init /\ [][NextAttempts]_vars

\* The fetch cooldown.
NextFetch ==
    \/ Free(Tick)
    \/ Free(CanFetch(Browser))
    \/ Free(RecordFetch(Browser))

SpecFetch == Init /\ [][NextFetch]_vars

\* ----- CreatePost.handleSubmit (create/page.tsx) -----
\* The click: lines 72-82, up to the first await.  content is the text field,
\* image whether a file is attached.
SubmitEmpty(tab) ==
    /\ pc[tab] = "idle"
    /\ outcome' = [outcome EXCEPT ![tab] = "empty"]
    /\ UNCHANGED <<now, localStorage, pc, submitting, rateLimited, waitSeconds,
                   recorded, tracked, inserted>>

SubmitDenied(tab) ==
    /\ pc[tab] = "idle"
    /\ \E t2 \in LaterRead(now) :
          LET status == canPost(localStorage, Browser, now, t2)
          IN  /\ ~status.allowed
              /\ rateLimited' = [rateLimited EXCEPT ![tab] = TRUE]
              /\ waitSeconds' = [waitSeconds EXCEPT ![tab] = status.waitSeconds]
              /\ now' = t2
    /\ outcome' = [outcome EXCEPT ![tab] = "denied"]
    /\ UNCHANGED <<localStorage, pc, submitting, recorded, tracked, inserted>>

SubmitAllowed(tab) ==
    /\ pc[tab] = "idle"
    /\ canPost(localStorage, Browser, now, now).allowed
    /\ submitting' = [submitting EXCEPT ![tab] = TRUE]
    /\ \E image \in BOOLEAN :
          pc' = [pc EXCEPT ![tab] = IF image THEN "upload" ELSE "insert"]
    /\ outcome' = [outcome EXCEPT ![tab] = "pending"]
    /\ UNCHANGED <<now, localStorage, rateLimited, waitSeconds,
                   recorded, tracked, inserted>>

\* The upload answers: lines 91-111.
UploadFailed(tab) ==
    /\ pc[tab] = "upload"
    /\ submitting' = [submitting EXCEPT ![tab] = FALSE]
    /\ pc' = [pc EXCEPT ![tab] = "idle"]
    /\ outcome' = [outcome EXCEPT ![tab] = "uploadFailed"]
    /\ UNCHANGED <<now, localStorage, rateLimited, waitSeconds,
                   recorded, tracked, inserted>>

UploadDone(tab) ==
    /\ pc[tab] = "upload"
    /\ pc' = [pc EXCEPT ![tab] = "insert"]
    /\ UNCHANGED <<now, localStorage, submitting, rateLimited, waitSeconds,
                   outcome, recorded, tracked, inserted>>

\* Mutant: the post recorded before the insert's error is looked at.
InsertFailedRecords(tab) ==
    /\ pc[tab] = "insert"
    /\ Len(recorded) < MaxRecorded
    /\ submitting' = [submitting EXCEPT ![tab] = FALSE]
    /\ pc' = [pc EXCEPT ![tab] = "idle"]
    /\ outcome' = [outcome EXCEPT ![tab] = "insertFailed"]
    /\ localStorage' = recordPost(localStorage, Browser, now, now).ls
    /\ recorded' = Append(recorded, now)
    /\ UNCHANGED <<now, rateLimited, waitSeconds, tracked, inserted>>

\* The insert answers: lines 113-124 on an error ...
InsertFailed(tab) ==
    /\ pc[tab] = "insert"
    /\ submitting' = [submitting EXCEPT ![tab] = FALSE]
    /\ pc' = [pc EXCEPT ![tab] = "idle"]
    /\ outcome' = [outcome EXCEPT ![tab] = "insertFailed"]
    /\ UNCHANGED <<now, localStorage, rateLimited, waitSeconds,
                   recorded, tracked, inserted>>

\* ... and lines 113-128 without: recordPost, trackEvent, router.push("/"),
\* which unmounts the page; its state is the initial one at the next mount.
InsertDone(tab) ==
    /\ pc[tab] = "insert"
    /\ Len(recorded) < MaxRecorded
    /\ inserted' = inserted + 1
    /\ \E t2 \in LaterRead(now) :
          /\ localStorage' = recordPost(localStorage, Browser, now, t2).ls
          /\ recorded' = Append(recorded, t2)
          /\ now' = t2
    /\ tracked' = tracked + 1
    /\ pc' = [pc EXCEPT ![tab] = "idle"]
    /\ submitting' = [submitting EXCEPT ![tab] = FALSE]
    /\ rateLimited' = [rateLimited EXCEPT ![tab] = FALSE]
    /\ waitSeconds' = [waitSeconds EXCEPT ![tab] = 0]
    /\ outcome' = [outcome EXCEPT ![tab] = "posted"]

\* The create-post page open in the tabs of one device.
Passes ==
    /\ TickWithin(PostInstants)
    /\ UNCHANGED <<calls, createVars, feedVars, metricVars, pageVars>>
Create(A) == A /\ UNCHANGED <<last, history, calls, feedVars, metricVars, pageVars>>

NextCreate ==
    \/ Passes
    \/ \E tab \in Tabs : Create(SubmitEmpty(tab))
    \/ \E tab \in Tabs : Create(SubmitDenied(tab))
    \/ \E tab \in Tabs : Create(SubmitAllowed(tab))
    \/ \E tab \in Tabs : Create(UploadFailed(tab))
    \/ \E tab \in Tabs : Create(UploadDone(tab))
    \/ \E tab \in Tabs : Create(InsertFailed(tab))
    \/ \E tab \in Tabs : Create(InsertDone(tab))

SpecCreate == Init /\ [][NextCreate]_vars

\* ----- Home: the feed (its posts query and handleLike) -----
\* A posts query answers: setPosts(fetched), syncLikesLeft(fetched).
FeedLoaded(tab) ==
    /\ posts' = [posts EXCEPT ![tab] = dbLikes]
    /\ likesLeft' = [likesLeft EXCEPT ![tab] =
                        [p \in FeedPosts |-> remainingLikes(localStorage, p, Browser)]]
    /\ UNCHANGED <<localStorage, dbLikes, updates, likesApplied>>

\* handleLike(postId, currentLikes) up to its await, currentLikes being the
\* likes the tab shows.  At the ceiling it returns at once and changes nothing.
HandleLike(tab, postId) ==
    LET currentLikes == posts[tab][postId]
        r == recordLike(localStorage, postId, Browser)
    IN  /\ Cardinality(updates) < MaxInflight
        /\ canLikePost(localStorage, postId, Browser)
        /\ r.ret
        /\ localStorage' = r.ls
        /\ likesLeft' = [likesLeft EXCEPT ![tab][postId] =
                            remainingLikes(r.ls, postId, Browser)]
        /\ posts' = [posts EXCEPT ![tab][postId] = currentLikes + 1]
        /\ updates' = updates \cup {[tab |-> tab, post |-> postId,
                                     likes |-> currentLikes + 1, was |-> currentLikes]}
        /\ UNCHANGED <<dbLikes, likesApplied>>

\* The Content Store runs update({likes}).eq("id", postId) and answers.
UpdateApplied(u) ==
    /\ dbLikes' = [dbLikes EXCEPT ![u.post] = u.likes]
    /\ likesApplied' = [likesApplied EXCEPT ![u.post] = @ + 1]
    /\ updates' = updates \ {u}
    /\ UNCHANGED <<localStorage, posts, likesLeft>>

\* The update fails: the tab shows currentLikes again.
UpdateFailed(u) ==
    /\ posts' = [posts EXCEPT ![u.tab][u.post] = u.was]
    /\ updates' = updates \ {u}
    /\ UNCHANGED <<localStorage, dbLikes, likesApplied, likesLeft>>

Feed(A) ==
    A /\ UNCHANGED <<now, last, history, calls, createVars, metricVars, pageVars>>

NextFeed ==
    \/ \E tab \in Tabs : Feed(FeedLoaded(tab))
    \/ \E tab \in Tabs, p \in FeedPosts : Feed(HandleLike(tab, p))
    \/ \E u \in updates : Feed(UpdateApplied(u))
    \/ \E u \in updates : Feed(UpdateFailed(u))

SpecFeed == Init /\ [][NextFeed]_vars

\* ----- AnalyticsProvider and trackEvent -----
\* Instants around the edges of the 30-minute session throttle.
MountInstants ==
    {StartTime + o : o \in {0, 1000, SESSION_GAP_MS - 1, SESSION_GAP_MS,
                            SESSION_GAP_MS + 1, SESSION_GAP_MS + 1001,
                            2 * SESSION_GAP_MS + 1, 2 * SESSION_GAP_MS + 2}}

\* trackEvent(eventName) up to its await: getUserId(), then the insert is
\* sent (its answer is only logged).  item is the stored identifier when it is
\* called, sessionStored the session item at that moment.
Tracked(eventName, item, uuid, sessionStored) ==
    [event_name |-> eventName, user_pseudo_id |-> getUserId(item, uuid).id,
     at |-> now, mount |-> mounts + 1, idBefore |-> pseudoIdItem,
     sessionStored |-> sessionStored]

\* The calls a mount makes, in the order of lines 28, 36 and 42.
MountCalls(first, session, qr, item, uuid, sessionStored) ==
    (IF first THEN <<Tracked("first_visit", item, uuid, sessionItem)>> ELSE <<>>)
    \o (IF session THEN <<Tracked("session_start", item, uuid, sessionStored)>> ELSE <<>>)
    \o (IF qr THEN <<Tracked("qr_scan", item, uuid, sessionStored)>> ELSE <<>>)

\* The effect of AnalyticsProvider, lines 22-44; qr is whether the URL has
\* ?source=qr.
Mount(qr) ==
    /\ mounts < MaxMounts
    /\ \E uuid \in Uuids :
          LET d == DetectFirstVisit(pseudoIdItem, uuid)
              session == SessionDue(sessionItem, now)
              stored == IF session THEN Str(toString(now)) ELSE sessionItem
              made == MountCalls(d.isNew, session, qr, d.got.item, uuid, stored)
          IN  /\ Len(trackCalls) + Len(made) <= MaxTracked
              /\ pseudoIdItem' = d.got.item
              /\ returnedIds' = returnedIds \cup {d.got.id}
              /\ idWrites' = idWrites + (IF d.got.wrote THEN 1 ELSE 0)
              /\ sessionItem' = stored
              /\ trackCalls' = trackCalls \o made
              /\ lastMount' = [n |-> mounts + 1, at |-> now, idBefore |-> pseudoIdItem,
                               sessionBefore |-> sessionItem, isNew |-> d.isNew,
                               first |-> d.isNew, session |-> session, qr |-> qr]
    /\ mounts' = mounts + 1
    /\ UNCHANGED now

\* A trackEvent made by a user action between mounts: ShareButton's share_post.
TrackShare ==
    /\ mounts > 0
    /\ Len(trackCalls) < MaxTracked
    /\ \E uuid \in Uuids :
          LET g == getUserId(pseudoIdItem, uuid)
          IN  /\ pseudoIdItem' = g.item
              /\ returnedIds' = returnedIds \cup {g.id}
              /\ idWrites' = idWrites + (IF g.wrote THEN 1 ELSE 0)
              /\ trackCalls' = Append(trackCalls,
                    [Tracked("share_post", pseudoIdItem, uuid, sessionItem)
                        EXCEPT !.mount = mounts])
    /\ UNCHANGED <<now, sessionItem, mounts, lastMount>>

Analytics(A) ==
    A /\ UNCHANGED <<localStorage, last, history, calls, createVars, feedVars,
                     metricVars, homeVars>>

NextAnalytics ==
    \/ /\ TickWithin(MountInstants)
       /\ UNCHANGED <<calls, createVars, feedVars, metricVars, pageVars>>
    \/ \E qr \in BOOLEAN : Analytics(Mount(qr))
    \/ Analytics(TrackShare)

SpecAnalytics == Init /\ [][NextAnalytics]_vars

\* ----- Home: fetching the feed, refreshing, the feedback survey -----
PAGE_SIZE == 15
FEEDBACK_DELAY_MS == 300000
\* The delay of the timeout that ends the cooldown indicator, line 129.
COOLDOWN_SHOWN_MS == 1500

\* fetchInitialPosts up to its await, lines 60-72.
InitialStarted(h) ==
    [h EXCEPT !.loading = TRUE, !.hasMore = TRUE, !.pageRef = 0,
              !.isFetchingRef = TRUE]

Query(kind, page, by) == [kind |-> kind, page |-> page, by |-> by, n |-> home.n]

\* The feedback survey effect, lines 206-214: no timeout once the item is set.
FeedbackTimer == IF feedbackItem # Absent THEN 0 ELSE now + FEEDBACK_DELAY_MS

\* Home mounts: the initial load effect, lines 142-145 (recordFetch, then
\* fetchInitialPosts), and the feedback survey effect.  The other effects
\* (gestures, observer, welcome popup, masonry) touch none of this state.
MountHome ==
    /\ ~home.mounted
    /\ home.n < MaxHomeMounts
    /\ localStorage' = recordFetch(localStorage, Browser, now).ls
    /\ home' = [InitialStarted(HomeState(home.n + 1, TRUE, now))
                   EXCEPT !.feedbackTimer = FeedbackTimer]
    /\ queries' = <<[Query("initial", 0, "load") EXCEPT !.n = home.n + 1]>>
    /\ fetchStarts' = Append(fetchStarts, [by |-> "load", at |-> now, allowed |-> TRUE,
                                           stored |-> localStorage'[LAST_FETCH]])
    /\ UNCHANGED <<now, feedbackItem, shows>>

\* Navigation away or a reload: the instance is gone, its feedback timeout is
\* cleared (line 213), and what its queries and other timeouts do reaches no
\* mounted page.
UnmountHome ==
    /\ home.mounted
    /\ home' = HomeState(home.n, FALSE, home.mountedAt)
    /\ queries' = <<>>
    /\ UNCHANGED <<now, localStorage, feedbackItem, fetchStarts, shows>>

\* handleRefresh (button or pull gesture) while a refresh is running, line 126.
RefreshIgnored ==
    /\ home.mounted
    /\ home.refreshingRef
    /\ UNCHANGED <<now, localStorage, home, queries, feedbackItem, fetchStarts, shows>>

\* handleRefresh inside the cooldown, lines 127-131.
RefreshDenied ==
    /\ home.mounted
    /\ ~home.refreshingRef
    /\ ~canFetch(localStorage, Browser, now)
    /\ home' = [home EXCEPT !.refreshCooldown = TRUE,
                            !.cooldownTimers = @ \cup {now + COOLDOWN_SHOWN_MS}]
    /\ UNCHANGED <<now, localStorage, queries, feedbackItem, fetchStarts, shows>>

\* Mutant: the refresh started without asking canFetch.
RefreshUnchecked ==
    /\ home.mounted
    /\ ~home.refreshingRef
    /\ Len(queries) < MaxQueries
    /\ localStorage' = recordFetch(localStorage, Browser, now).ls
    /\ home' = [InitialStarted(home) EXCEPT !.refreshingRef = TRUE, !.refreshing = TRUE]
    /\ queries' = Append(queries, Query("initial", 0, "refresh"))
    /\ fetchStarts' = Append(fetchStarts,
                             [by |-> "refresh", at |-> now,
                              allowed |-> canFetch(localStorage, Browser, now),
                              stored |-> localStorage'[LAST_FETCH]])
    /\ UNCHANGED <<now, feedbackItem, shows>>

\* handleRefresh outside the cooldown, lines 127-136 up to the await inside
\* fetchInitialPosts.
RefreshStarted ==
    /\ home.mounted
    /\ ~home.refreshingRef
    /\ canFetch(localStorage, Browser, now)
    /\ Len(queries) < MaxQueries
    /\ localStorage' = recordFetch(localStorage, Browser, now).ls
    /\ home' = [InitialStarted(home) EXCEPT !.refreshingRef = TRUE, !.refreshing = TRUE]
    /\ queries' = Append(queries, Query("initial", 0, "refresh"))
    /\ fetchStarts' = Append(fetchStarts,
                             [by |-> "refresh", at |-> now,
                              allowed |-> canFetch(localStorage, Browser, now),
                              stored |-> localStorage'[LAST_FETCH]])
    /\ UNCHANGED <<now, feedbackItem, shows>>

\* One of the timeouts of line 129 fires.
CooldownEnds ==
    /\ home.mounted
    /\ \E due \in home.cooldownTimers :
          /\ now >= due
          /\ home' = [home EXCEPT !.refreshCooldown = FALSE,
                                  !.cooldownTimers = @ \ {due}]
    /\ UNCHANGED <<now, localStorage, queries, feedbackItem, fetchStarts, shows>>

\* The sentinel comes into view: the observer's callback, lines 193-197, and
\* fetchNextPage up to its await, lines 89-101.  The sentinel is in the page
\* once the skeleton of the first load is gone.
ScrollNearEnd ==
    /\ home.mounted
    /\ ~(home.loading /\ home.pages = <<>>)
    /\ ~home.isFetchingRef
    /\ home.hasMore
    /\ home.pageRef < MaxPage
    /\ Len(queries) < MaxQueries
    /\ home' = [home EXCEPT !.isFetchingRef = TRUE, !.loadingMore = TRUE]
    /\ queries' = Append(queries, Query("next", home.pageRef + 1, "scroll"))
    /\ UNCHANGED <<now, localStorage, feedbackItem, fetchStarts, shows>>

\* The rows a query may answer with: a full page, fewer, none.
Answers == {PAGE_SIZE, 1, 0}

Without(seq, i) == SubSeq(seq, 1, i - 1) \o SubSeq(seq, i + 1, Len(seq))

\* The query of fetchInitialPosts answers: lines 74-84, and lines 137-138
\* when handleRefresh awaited it.
InitialAnswered(i, error, rows) ==
    /\ queries[i].kind = "initial"
    /\ LET h1 == IF error THEN home
                 ELSE [home EXCEPT !.pages = IF rows > 0 THEN <<0>> ELSE <<>>,
                                   !.hasMore = IF rows < PAGE_SIZE THEN FALSE ELSE @]
           h2 == [h1 EXCEPT !.loading = FALSE, !.isFetchingRef = FALSE]
       IN  home' = IF queries[i].by = "refresh"
                   THEN [h2 EXCEPT !.refreshing = FALSE, !.refreshingRef = FALSE]
                   ELSE h2
    /\ queries' = Without(queries, i)
    /\ UNCHANGED <<now, localStorage, feedbackItem, fetchStarts, shows>>

\* The query of fetchNextPage answers: lines 103-121.
NextAnswered(i, error, rows) ==
    /\ queries[i].kind = "next"
    /\ LET h1 == IF error THEN home
                 ELSE [home EXCEPT
                         !.hasMore = IF rows < PAGE_SIZE THEN FALSE ELSE @,
                         !.pageRef = IF rows > 0 THEN queries[i].page ELSE @,
                         !.pages = IF rows > 0 THEN Append(@, queries[i].page) ELSE @]
       IN  home' = [h1 EXCEPT !.loadingMore = FALSE, !.isFetchingRef = FALSE]
    /\ queries' = Without(queries, i)
    /\ UNCHANGED <<now, localStorage, feedbackItem, fetchStarts, shows>>

\* The timeout of line 208 fires, at its due time or later.
FeedbackTimerFires ==
    /\ home.mounted
    /\ home.feedbackTimer # 0
    /\ now >= home.feedbackTimer
    /\ home' = [home EXCEPT !.feedbackTimer = 0,
                            !.showFeedback = IF feedbackItem = Absent THEN TRUE ELSE @]
    /\ shows' = IF feedbackItem = Absent /\ ~home.showFeedback
                THEN Append(shows, [at |-> now, mountedAt |-> home.mountedAt,
                                    n |-> home.n])
                ELSE shows
    /\ UNCHANGED <<now, localStorage, queries, feedbackItem, fetchStarts>>

\* FeedbackModal's onClose, lines 539-542: Skip, the backdrop, or a rating.
FeedbackClosed ==
    /\ home.mounted
    /\ home.showFeedback
    /\ home' = [home EXCEPT !.showFeedback = FALSE]
    /\ feedbackItem' = Str("true")
    /\ UNCHANGED <<now, localStorage, queries, fetchStarts, shows>>

HomePage(A) ==
    A /\ UNCHANGED <<last, history, calls, createVars, feedVars, metricVars,
                     analyticsVars>>

\* Instants around the edges of the fetch cooldown and of its indicator.
HomeInstants ==
    {StartTime + o : o \in {0, 1, FETCH_COOLDOWN_MS - 1, FETCH_COOLDOWN_MS,
                            FETCH_COOLDOWN_MS + 1, 2 * FETCH_COOLDOWN_MS}}

\* The feed page in one tab: loads, refreshes and scrolling.
NextHome ==
    \/ /\ TickWithin(HomeInstants)
       /\ UNCHANGED <<calls, createVars, feedVars, metricVars, pageVars>>
    \/ HomePage(MountHome)
    \/ HomePage(UnmountHome)
    \/ HomePage(RefreshIgnored)
    \/ HomePage(RefreshDenied)
    \/ HomePage(RefreshStarted)
    \/ HomePage(CooldownEnds)
    \/ HomePage(ScrollNearEnd)
    \/ \E i \in DOMAIN queries, error \in BOOLEAN, rows \in Answers :
          HomePage(InitialAnswered(i, error, rows))
    \/ \E i \in DOMAIN queries, error \in BOOLEAN, rows \in Answers :
          HomePage(NextAnswered(i, error, rows))

SpecHome == Init /\ [][NextHome]_vars

\* Instants around the edges of the feedback delay.
SurveyInstants ==
    {StartTime + o : o \in {0, 1000, FEEDBACK_DELAY_MS - 1, FEEDBACK_DELAY_MS,
                            FEEDBACK_DELAY_MS + 1000, 2 * FEEDBACK_DELAY_MS,
                            2 * FEEDBACK_DELAY_MS + 1000, 3 * FEEDBACK_DELAY_MS}}

\* The feed page in one tab over one browser session: the feedback survey.
NextSurvey ==
    \/ /\ TickWithin(SurveyInstants)
       /\ UNCHANGED <<calls, createVars, feedVars, metricVars, pageVars>>
    \/ HomePage(MountHome)
    \/ HomePage(UnmountHome)
    \/ HomePage(FeedbackTimerFires)
    \/ HomePage(FeedbackClosed)
    \/ \E i \in DOMAIN queries, error \in BOOLEAN, rows \in Answers :
          HomePage(InitialAnswered(i, error, rows))

SpecSurvey == Init /\ [][NextSurvey]_vars

\* ----- The metrics dashboard -----
\* Ages (Date.now() - created_at) at the edges of the churn windows and inside
\* them; 648000000 ms is 7.5 days.
ChurnAges == {MS_8D, 648000000, MS_7D, MS_24H, 3600000, 0}
ChurnRows ==
    [event_name : {"session_start"},
     user_pseudo_id : UserIds,
     created_at : {StartTime - age : age \in ChurnAges}]

\* first_visit rows 50 hours, exactly 24 hours and 1 ms less than 24 hours
\* old, and other rows at the edges of the return window of a first visit 50
\* hours ago (26 h and 2 h old, and 1 ms older) and of one 24 hours ago (now).
FirstVisitAges == {50 * 3600000, MS_24H, MS_24H - 1}
ReturnAges == {26 * 3600000 + 1, 26 * 3600000, 2 * 3600000 + 1, 2 * 3600000, 0}
RetentionRows ==
    [event_name : {"first_visit"},
     user_pseudo_id : UserIds,
     created_at : {StartTime - age : age \in FirstVisitAges}]
    \cup
    [event_name : {"session_start"},
     user_pseudo_id : UserIds,
     created_at : {StartTime - age : age \in ReturnAges}]

\* Rows of feedback added one at a time.
MaxFeedback == 5
\* rating is a string: the three the form offers, and one it does not.
Ratings == {"happy", "normal", "sad", "meh"}
\* A table of h happy, n normal and s sad rows.
Survey(h, n, s) ==
    [i \in 1..(h + n + s) |->
        [rating |-> IF i <= h THEN "happy" ELSE IF i <= h + n THEN "normal" ELSE "sad"]]
\* Tables at and around the threshold of 40, and with a score that is a half.
Surveys ==
    {Survey(50, 30, 20), Survey(20, 30, 50), Survey(70, 0, 30), Survey(71, 0, 29),
     Survey(1, 7, 0), Survey(0, 7, 1)}

\* Rows with a valid date 30 hours old and with a string that is no date, and
\* rows with a null date.
DirtyRows ==
    [event_name : {"first_visit", "session_start"},
     user_pseudo_id : UserIds,
     created_at : {StartTime - 30 * 3600000, BadDate}]
    \cup
    [event_name : {"session_start"}, user_pseudo_id : UserIds, created_at : {NullDate}]

\* Rows of all three tables together in a run that draws from each.
MaxRows == 3
\* The names trackEvent is called with, and one it is not.
KnownEventNames ==
    {"first_visit", "session_start", "qr_scan", "post_created", "share_post",
     "feedback_submitted"}
SnapshotRows ==
    [event_name : KnownEventNames \cup {"page_view"},
     user_pseudo_id : UserIds,
     created_at : {StartTime - 3600000}]
PostLikes == {0, 2, NullLikes}

\* computeMetrics takes its rows in whatever order its caller has them: the
\* list grows by a row of any time and user.
EventFetched(e) ==
    /\ Len(events) < MaxEvents
    /\ events' = Append(events, e)
    /\ UNCHANGED <<feedback, postRows, metrics, computedFrom, computedWith>>

\* The query of lines 289-293 answers with a table of rows.
EventsFetched(rows) ==
    /\ events = <<>>
    /\ events' = rows
    /\ UNCHANGED <<feedback, postRows, metrics, computedFrom, computedWith>>

\* The feedback query of line 294 answers: a row more, or a whole table.
FeedbackRowFetched(f) ==
    /\ Len(feedback) < MaxFeedback
    /\ feedback' = Append(feedback, f)
    /\ UNCHANGED <<events, postRows, metrics, computedFrom, computedWith>>

FeedbackFetched(rows) ==
    /\ feedback = <<>>
    /\ feedback' = rows
    /\ UNCHANGED <<events, postRows, metrics, computedFrom, computedWith>>

\* The posts query of line 295 answers with a row more.
PostRowFetched(p) ==
    /\ postRows' = Append(postRows, p)
    /\ UNCHANGED <<events, feedback, metrics, computedFrom, computedWith>>

\* fetchMetrics: setMetrics(computeMetrics(events, feedback, posts)).
Compute ==
    /\ \E ord \in SortOrders(events) :
          metrics' = computeMetrics(events, feedback, postRows, now, ord)
    /\ computedWith' = [done |-> TRUE, feedback |-> feedback,
                        posts |-> postRows, now |-> now]
    /\ computedFrom' = events
    /\ UNCHANGED <<events, feedback, postRows>>

Dashboard(A) ==
    A /\ UNCHANGED <<now, localStorage, last, history, calls, createVars, feedVars,
                     pageVars>>

NextMetrics ==
    \/ \E e \in RawEvents : Dashboard(EventFetched(e))
    \/ Dashboard(Compute)

SpecMetrics == Init /\ [][NextMetrics]_vars

\* The dashboard over tables that differ in who posted.
NextActivation ==
    \/ \E e \in ActivationRows : Dashboard(EventFetched(e))
    \/ \E rows \in Cohorts : Dashboard(EventsFetched(rows))
    \/ Dashboard(Compute)

SpecActivation == Init /\ [][NextActivation]_vars

\* The dashboard over rows at the edges of the churn windows.
NextChurn ==
    \/ \E e \in ChurnRows : Dashboard(EventFetched(e))
    \/ Dashboard(Compute)

SpecChurn == Init /\ [][NextChurn]_vars

\* The dashboard over all three tables, MaxRows rows in all.
RowsFetched == Len(events) + Len(feedback) + Len(postRows)

NextSnapshot ==
    \/ \E e \in SnapshotRows :
          RowsFetched < MaxRows /\ Dashboard(EventFetched(e))
    \/ \E r \in Ratings :
          RowsFetched < MaxRows /\ Dashboard(FeedbackRowFetched([rating |-> r]))
    \/ \E l \in PostLikes :
          RowsFetched < MaxRows /\ Dashboard(PostRowFetched([likes |-> l]))
    \/ Dashboard(Compute)

SpecSnapshot == Init /\ [][NextSnapshot]_vars

\* Well-formed rows of every age that matters: an hour ahead of the
\* dashboard's clock, two sessions' worth inside the last day, a day old, a
\* week old.
WellFormedAges == {-3600000, 6900000, 7200000, 90000000, 648000000}
WellFormedRows ==
    [event_name : {"first_visit", "session_start", "post_created"},
     user_pseudo_id : UserIds \cup {NoUser},
     created_at : {StartTime - a : a \in WellFormedAges}]

\* The dashboard over well-formed tables, MaxRows rows in all.
NextBounds ==
    \/ \E e \in WellFormedRows :
          RowsFetched < MaxRows /\ Dashboard(EventFetched(e))
    \/ \E r \in Ratings :
          RowsFetched < MaxRows /\ Dashboard(FeedbackRowFetched([rating |-> r]))
    \/ \E l \in PostLikes \ {NullLikes} :
          RowsFetched < MaxRows /\ Dashboard(PostRowFetched([likes |-> l]))
    \/ Dashboard(Compute)

SpecBounds == Init /\ [][NextBounds]_vars

\* The dashboard over rows some of which have no valid date.
NextDirty ==
    \/ \E e \in DirtyRows : Dashboard(EventFetched(e))
    \/ Dashboard(Compute)

SpecDirty == Init /\ [][NextDirty]_vars

\* The dashboard over tables of feedback.
NextNps ==
    \/ \E r \in Ratings : Dashboard(FeedbackRowFetched([rating |-> r]))
    \/ \E rows \in Surveys : Dashboard(FeedbackFetched(rows))
    \/ Dashboard(Compute)

SpecNps == Init /\ [][NextNps]_vars

\* The dashboard over first visits and returns at the edges of day 1.
NextRetention ==
    \/ \E e \in RetentionRows : Dashboard(EventFetched(e))
    \/ Dashboard(Compute)

SpecRetention == Init /\ [][NextRetention]_vars

\* Every quota function, each call in an environment of its own: the browser,
\* no window (the module evaluated on the server), a localStorage whose reads
\* throw, a localStorage whose writes throw.
NextStore ==
    \/ Budgeted(Tick)
    \/ \E env \in Environments : Budgeted(GetLikesGiven(env))
    \/ \E env \in Environments : Budgeted(RemainingLikes(env))
    \/ \E env \in Environments : Budgeted(CanLikePost(env))
    \/ \E env \in Environments : Budgeted(RecordLike(env))
    \/ \E env \in Environments : Budgeted(CanPost(env))
    \/ \E env \in Environments : Budgeted(RecordPost(env))
    \/ \E env \in Environments : Budgeted(PostsRemaining(env))
    \/ \E env \in Environments : Budgeted(CanFetch(env))
    \/ \E env \in Environments : Budgeted(RecordFetch(env))

SpecStore == Init /\ [][NextStore]_vars

\* The three policies side by side on one device, in the browser, with a
\* working store.
NextQuota ==
    \/ Budgeted(Tick)
    \/ Budgeted(GetLikesGiven(Browser))
    \/ Budgeted(RemainingLikes(Browser))
    \/ Budgeted(CanLikePost(Browser))
    \/ Budgeted(RecordLike(Browser))
    \/ Budgeted(CanPost(Browser))
    \/ Budgeted(RecordPost(Browser))
    \/ Budgeted(PostsRemaining(Browser))
    \/ Budgeted(CanFetch(Browser))
    \/ Budgeted(RecordFetch(Browser))

SpecQuota == Init /\ [][NextQuota]_vars

\* The like map as stored now (the empty map when the item is missing).
StoredLikes(ls) == IF ls[LIKES].tag = "json" THEN ls[LIKES].val ELSE NoLikes
Given(p) == LikesOf(StoredLikes(localStorage), p)

C1_Counts ==
    /\ \A p \in PostIds : Given(p) = Min(LIKE_LIMIT_PER_POST, likeCalls[p])
    /\ last.op = "remainingLikes" =>
           last.ret = Max(0, LIKE_LIMIT_PER_POST - Given(last.arg))
C1_NeverDecreases == \A p \in PostIds : Given(p)' >= Given(p)

\* C1: whatever the sequence of recordLike, canLikePost and remainingLikes
\* calls and however time advances in between, the stored like count of
\* every post is min(5, number of recordLike calls for that post), it never
\* decreases, and remainingLikes(post) is max(0, 5 - stored count).
C1_LikeCountIsCappedCallCount == []C1_Counts /\ [][C1_NeverDecreases]_vars

\* Seven recordLike calls for one post, time has advanced, and remainingLikes
\* of that post has just answered 0.
C1_Witness ==
    /\ last.op = "remainingLikes"
    /\ likeCalls[last.arg] = MaxLikeCalls
    /\ Given(last.arg) = LIKE_LIMIT_PER_POST
    /\ last.ret = 0
    /\ now > StartTime

\* C2: recordLike(post) returns true exactly when the stored count of the post
\* was below 5 before the call, and then the store differs from the one before
\* only in that count, which is one higher; at 5 it returns false and the whole
\* store is as before, at every repetition.
C2_RecordLikeAllOrNothing ==
    last.op = "recordLike" =>
        LET before == LikesOf(StoredLikes(last.pre), last.arg)
            old == StoredLikes(last.pre)
        IN  /\ last.ret = (before < LIKE_LIMIT_PER_POST)
            /\ last.ret =>
                   /\ Given(last.arg) = before + 1
                   /\ \A p \in PostIds \ {last.arg} : Given(p) = LikesOf(old, p)
                   /\ DOMAIN StoredLikes(localStorage) = DOMAIN old \cup {last.arg}
                   /\ \A k \in STORAGE_KEYS \ {LIKES} : localStorage[k] = last.pre[k]
            /\ ~last.ret => localStorage = last.pre

\* A rejected recordLike on a post that was rejected before (call 7 at count 5),
\* while the other post holds likes of its own.
C2_Witness ==
    /\ last.op = "recordLike"
    /\ last.ret = FALSE
    /\ likeCalls[last.arg] = MaxLikeCalls
    /\ \E p \in PostIds \ {last.arg} : Given(p) > 0 /\ Given(p) < LIKE_LIMIT_PER_POST

\* ----- The post policy's claims -----
StoredTimes(ls) == IF ls[POSTS].tag = "json" THEN ls[POSTS].val ELSE <<>>
Count(x, seq) == Cardinality({i \in DOMAIN seq : seq[i] = x})
Range(seq) == {seq[i] : i \in DOMAIN seq}
PostOps == {"canPost", "postsRemaining", "recordPost"}

\* C4: canPost returns {allowed: true, waitSeconds: 0} exactly when fewer than
\* 3 of the stored timestamps are less than 10 minutes old at its clock read;
\* otherwise allowed is false and waitSeconds is the least whole number of
\* seconds not below 10 min - (now - oldest surviving timestamp).
C4_CanPostResult ==
    last.op = "canPost" =>
        LET times == StoredTimes(last.pre)
            S == {i \in DOMAIN times : last.t1 - times[i] < POST_WINDOW_MS}
            r == last.ret
        IN  /\ r.allowed = (Cardinality(S) < POST_LIMIT)
            /\ r.allowed => r.waitSeconds = 0
            /\ ~r.allowed =>
                  \E i \in S :
                     /\ \A j \in S : times[i] <= times[j]
                     /\ LET waitMs == POST_WINDOW_MS - (last.t2 - times[i])
                        IN  /\ r.waitSeconds * 1000 >= waitMs
                            /\ (r.waitSeconds - 1) * 1000 < waitMs

\* A denial with one stored timestamp pruned, three surviving, and a wait that
\* is not a whole number of seconds, so that the rounding shows.
C4_Witness ==
    /\ last.op = "canPost"
    /\ ~last.ret.allowed
    /\ Len(StoredTimes(last.pre)) > Len(last.recent)
    /\ last.ret.waitSeconds * 1000
          > POST_WINDOW_MS - (last.t2 - MinOf(last.recent))

\* C5 as stated: a call of the post policy drops a stored timestamp only when
\* it is older than now - 10 minutes (t < now - W).
C5_DropsOnlyOlderThanWindow ==
    last.op \in PostOps =>
        \A x \in Range(StoredTimes(last.pre)) :
            Count(x, last.recent) < Count(x, StoredTimes(last.pre))
                => x < last.t1 - POST_WINDOW_MS

\* C5 as amended: the evaluated sequence holds nothing but stored timestamps;
\* a stored timestamp is dropped only when it is at least 10 minutes old
\* (now - t >= W, the one exactly 10 minutes old included); one less than 10
\* minutes old is kept in the evaluated sequence, and in the sequence
\* recordPost writes back, as often as it was stored.
C5_DropsOnlyExpired ==
    last.op \in PostOps =>
        LET pre == StoredTimes(last.pre)
        IN  /\ \A x \in Range(last.recent) : Count(x, last.recent) <= Count(x, pre)
            /\ \A x \in Range(pre) :
                 /\ Count(x, last.recent) < Count(x, pre)
                       => last.t1 - x >= POST_WINDOW_MS
                 /\ last.t1 - x < POST_WINDOW_MS =>
                       /\ Count(x, last.recent) = Count(x, pre)
                       /\ last.op = "recordPost" =>
                             Count(x, StoredTimes(localStorage))
                                 = Count(x, pre) + (IF x = last.t2 THEN 1 ELSE 0)

\* recordPost has dropped a timestamp exactly 10 minutes old and written back
\* one that was 1 ms younger.
C5_Witness ==
    /\ last.op = "recordPost"
    /\ \E x \in Range(StoredTimes(last.pre)) :
          /\ last.t1 - x = POST_WINDOW_MS
          /\ x \notin Range(StoredTimes(localStorage))
    /\ \E x \in Range(StoredTimes(last.pre)) :
          /\ last.t1 - x = POST_WINDOW_MS - 1
          /\ x \in Range(StoredTimes(localStorage))

\* ----- The fetch cooldown's claims -----
\* C6: once recordFetch has run at time t, canFetch is false at every time
\* before t + 3 s and true from t + 3 s on, until the next recordFetch; and
\* recordFetch stores its own time whatever canFetch would have answered.
C6_CooldownAfterRecordFetch ==
    /\ (last.op = "canFetch" /\ fetchAt > 0) =>
           (last.ret = (last.t1 >= fetchAt + FETCH_COOLDOWN_MS))
    /\ last.op = "recordFetch" =>
           localStorage[LAST_FETCH] = Json(last.t1)

\* canFetch answers true exactly 3 s after the latest recordFetch, in a run in
\* which a recordFetch was made during the cooldown of an earlier one.
C6_Witness ==
    /\ last.op = "canFetch"
    /\ last.ret = TRUE
    /\ last.t1 = fetchAt + FETCH_COOLDOWN_MS
    /\ overwrote

\* ----- The counter store's claims -----
\* The call found no item under key k: the item was never written, or there
\* is no window and so no localStorage at all.
Missing(k) == ~last.env.win \/ last.pre[k].tag = "absent"

\* C7: on an empty or missing counter store no quota function fails and each
\* answers "no usage so far": getLikesGiven 0, remainingLikes 5, canLikePost
\* true, canPost {allowed: true, waitSeconds: 0}, postsRemaining 3, canFetch
\* true; a call throws only when setItem does.
C7_EmptyStoreDefaults ==
    /\ last.threw => ~last.env.wok
    /\ Missing(LIKES) =>
          /\ last.op = "getLikesGiven" => last.ret = 0
          /\ last.op = "remainingLikes" => last.ret = LIKE_LIMIT_PER_POST
          /\ last.op = "canLikePost" => last.ret = TRUE
    /\ Missing(POSTS) =>
          /\ last.op = "canPost" => last.ret = [allowed |-> TRUE, waitSeconds |-> 0]
          /\ last.op = "postsRemaining" => last.ret = POST_LIMIT
    /\ (Missing(LAST_FETCH) /\ last.op = "canFetch") => last.ret = TRUE

\* First use: canFetch has answered true on a localStorage with no item at all.
C7_Witness ==
    /\ last.op = "canFetch"
    /\ last.env = Browser
    /\ last.pre = EmptyStorage
    /\ last.ret = TRUE

\* C8: a read that fails counts as no usage so far, and a recorder that
\* returns normally (recordLike: returns true) has stored the value it
\* computed; a write that fails or is skipped does not pass silently.
C8_RecordingIsStoredOrSurfaced ==
    /\ (last.op = "canLikePost" /\ ~last.env.rok) => last.ret = TRUE
    /\ (last.op = "postsRemaining" /\ ~last.env.rok) => last.ret = POST_LIMIT
    /\ (last.op = "canFetch" /\ ~last.env.rok) => last.ret = TRUE
    /\ (last.op = "recordLike" /\ last.ret = TRUE) =>
          Given(last.arg) = getLikesGiven(last.pre, last.arg, last.env) + 1
    /\ (last.op = "recordPost" /\ ~last.threw) =>
          /\ StoredTimes(localStorage) # <<>>
          /\ StoredTimes(localStorage)[Len(StoredTimes(localStorage))] = last.t2
    /\ (last.op = "recordFetch" /\ ~last.threw) =>
          localStorage[LAST_FETCH] = Json(last.t1)

\* ----- The create-post page's claims -----
\* C3: however post-creation attempts on one device interleave, no 10-minute
\* window (no timestamp t with the half-open interval [t, t + 10 min)) holds
\* more than 3 recorded post timestamps.
C3_AtMostThreePerWindow ==
    \A i \in DOMAIN recorded :
        Cardinality({j \in DOMAIN recorded :
                        /\ recorded[j] >= recorded[i]
                        /\ recorded[j] - recorded[i] < POST_WINDOW_MS}) <= POST_LIMIT

\* ----- The feed's claims -----
C9_CountsAccepted == \A p \in FeedPosts : dbLikes[p] = likesApplied[p]
C9_NeverDecreases == \A p \in FeedPosts : dbLikes'[p] >= dbLikes[p]

\* C9: under any interleaving of handleLike calls, the stored likes of a post
\* never decrease and have risen by exactly 1 for each like that recordLike
\* allowed and whose update the Content Store accepted.
C9_LikesGrowByOnePerLike == []C9_CountsAccepted /\ [][C9_NeverDecreases]_vars

\* ----- The aggregator's claims -----
\* Every reordering of a list of rows.
Reorderings(rows) ==
    {[i \in 1..Len(rows) |-> rows[f[i]]] : f \in Permutations(1..Len(rows))}

Minutes(m) == m * 60000

\* The rows are those of one user alone, at minutes 0, 5, 40 and 45.
IsTheExample(rows) ==
    /\ Len(rows) = 4
    /\ \E u \in UserIds : \A i \in DOMAIN rows : rows[i].user_pseudo_id = u
    /\ {rows[i].created_at - StartTime : i \in DOMAIN rows}
          = {Minutes(0), Minutes(5), Minutes(40), Minutes(45)}

\* The sessions of rows that all have valid dates.
SessionsIn(rows) == Sessions(rows, NoReorder(rows))

\* C10: the sessions computeMetrics reconstructs do not depend on the order
\* of its rows: every reordering of the rows it was given yields the same
\* session count, total duration and avgSessionLengthMin as it returned; and
\* for one user with rows at minutes 0, 5, 40, 45 these are two sessions of
\* 5 minutes each and an average of 5.0.
C10_SessionsOrderIndependent ==
    /\ \A rows \in Reorderings(computedFrom) :
          /\ SessionsIn(rows).sessionCount = SessionsIn(computedFrom).sessionCount
          /\ SessionsIn(rows).totalSessionMs = SessionsIn(computedFrom).totalSessionMs
          /\ avgSessionLengthMin(SessionsIn(rows)) = metrics.avgSessionLengthMin
    /\ IsTheExample(computedFrom) =>
          /\ SessionsIn(computedFrom).durations = <<Minutes(5), Minutes(5)>>
          /\ SessionsIn(computedFrom).sessionCount = 2
          /\ metrics.avgSessionLengthMin = 50

\* computeMetrics was given the example's rows in an order that is not
\* ascending, and answered 5.0.
C10_Witness ==
    /\ IsTheExample(computedFrom)
    /\ computedFrom[1].created_at > computedFrom[2].created_at
    /\ metrics.avgSessionLengthMin = 50

\* The times of uid's rows, as a set.
TimesOf(rows, uid) ==
    {rows[i].created_at : i \in {j \in DOMAIN rows : rows[j].user_pseudo_id = uid}}

\* x opens a maximal run of uid's times: no earlier time of uid lies within
\* 30 minutes of it.  x closes one: no later time does.
Opens(rows, uid, x) ==
    ~\E y \in TimesOf(rows, uid) : y < x /\ x - y <= SESSION_GAP
Closes(rows, uid, x) ==
    ~\E y \in TimesOf(rows, uid) : y > x /\ y - x <= SESSION_GAP

\* The maximal runs of all identities, each as <<identity, first, last>>.
Runs(rows) ==
    {r \in UNION {{<<u, x, y>> : x \in TimesOf(rows, u), y \in TimesOf(rows, u)} :
                    u \in UsersOf(rows)} :
        /\ Opens(rows, r[1], r[2])
        /\ Closes(rows, r[1], r[3])
        /\ r[2] <= r[3]
        /\ \A z \in TimesOf(rows, r[1]) :
              (r[2] < z /\ z <= r[3]) => ~Opens(rows, r[1], z)}

RECURSIVE SumOf(_)
SumOf(seq) == IF seq = <<>> THEN 0 ELSE Head(seq) + SumOf(Tail(seq))

\* C11: for each identity with an event, its times fall into maximal runs in
\* which no consecutive gap exceeds 30 minutes (a gap of exactly 30 minutes
\* does not split); computeMetrics counts one session per run, the trailing
\* one included, of duration last - first (0 for a single event), and
\* avgSessionLengthMin is the sum of the durations over the number of
\* sessions, in minutes, rounded to one decimal (0 without sessions).
C11_SessionsAreMaximalRuns ==
    computedWith.done =>
        LET s == SessionsIn(computedFrom)
            runs == Runs(computedFrom)
            avg == metrics.avgSessionLengthMin
        IN  /\ s.sessionCount = Cardinality(runs)
            /\ Len(s.durations) = s.sessionCount
            /\ \A d \in {r[3] - r[2] : r \in runs} \cup Range(s.durations) :
                  Cardinality({i \in DOMAIN s.durations : s.durations[i] = d})
                     = Cardinality({r \in runs : r[3] - r[2] = d})
            /\ s.totalSessionMs = SumOf(s.durations)
            /\ s.sessionCount = 0 => avg = 0
            /\ s.sessionCount > 0 =>
                  /\ (2 * avg - 1) * 6000 * s.sessionCount <= 2 * s.totalSessionMs
                  /\ 2 * s.totalSessionMs < (2 * avg + 1) * 6000 * s.sessionCount

\* computeMetrics was given one identity with rows at minutes 5, 35 and 45
\* (a gap of exactly 30 minutes, which does not split) and another identity
\* with a single row: two sessions, of 40 and 0 minutes, average 20.0.
C11_Witness ==
    /\ computedWith.done
    /\ \E u \in UserIds :
          /\ TimesOf(computedFrom, u)
                = {StartTime + Minutes(5), StartTime + Minutes(35), StartTime + Minutes(45)}
          /\ \E v \in UserIds \ {u} : Cardinality(TimesOf(computedFrom, v)) = 1
    /\ SessionsIn(computedFrom).sessionCount = 2
    /\ metrics.avgSessionLengthMin = 200

\* C12: in every snapshot activationRate is 100 times the identities with a
\* post_created row over all identities, rounded to one decimal, and 0
\* without identities; activationGoalMet is true exactly when the reported
\* activationRate is greater than 50 (6 of 10 identities: 60.0 and true).
C12_ActivationGoalFollowsReportedRate ==
    computedWith.done =>
        LET ids == UsersOf(computedFrom)
            posted == UsersOf(Named(computedFrom, "post_created"))
            rate == metrics.activationRate
        IN  /\ ids = {} => rate = 0
            /\ ids # {} =>
                  /\ (2 * rate - 1) * Cardinality(ids) <= 2000 * Cardinality(posted)
                  /\ 2000 * Cardinality(posted) < (2 * rate + 1) * Cardinality(ids)
            /\ (Cardinality(ids) = 10 /\ Cardinality(posted) = 6) =>
                  (rate = 600 /\ metrics.activationGoalMet)
            /\ metrics.activationGoalMet = (rate > 500)

\* The identities with a row whose timestamp satisfies InWindow.
IdentitiesAt(rows, InWindow(_)) ==
    {rows[i].user_pseudo_id : i \in {j \in DOMAIN rows : InWindow(rows[j].created_at)}}
        \ {NoUser}

\* churnRate is 100 * churned / weekAgo rounded to one decimal, 0 for an
\* empty weekAgo.
IsChurnOf(rate, weekAgo, churned) ==
    /\ weekAgo = {} => rate = 0
    /\ weekAgo # {} =>
          /\ (2 * rate - 1) * Cardinality(weekAgo) <= 2000 * Cardinality(churned)
          /\ 2000 * Cardinality(churned) < (2 * rate + 1) * Cardinality(weekAgo)

\* C13 as stated: churnRate is, of the identities with an event in
\* [now-8d, now-7d), the percentage with no event in [now-24h, now), both
\* windows with their lower bound included and their upper bound excluded.
C13_ChurnWindowsAsWritten ==
    computedWith.done =>
        LET t == computedWith.now
            WeekAgo(x) == t - MS_8D <= x /\ x < t - MS_7D
            LastDay(x) == t - MS_24H <= x /\ x < t
            weekAgo == IdentitiesAt(computedFrom, WeekAgo)
        IN  IsChurnOf(metrics.churnRate, weekAgo,
                      weekAgo \ IdentitiesAt(computedFrom, LastDay))

\* C13 as amended: churnRate is, of the identities with an event in
\* (now-8d, now-7d] (at least 7 and less than 8 days old), the percentage
\* with no event later than now-24h (less than 24 hours old), rounded to one
\* decimal and 0 when the first set is empty.
C13_ChurnWindowsByAge ==
    computedWith.done =>
        LET t == computedWith.now
            WeekAgo(x) == t - MS_8D < x /\ x <= t - MS_7D
            LastDay(x) == t - MS_24H < x
            weekAgo == IdentitiesAt(computedFrom, WeekAgo)
        IN  IsChurnOf(metrics.churnRate, weekAgo,
                      weekAgo \ IdentitiesAt(computedFrom, LastDay))

\* Two identities were active a week ago, one of them exactly 7 days ago and
\* then again exactly 24 hours ago (which is not within the last 24 hours),
\* the other 7.5 days ago and again within the last hour: churnRate 50.0.
C13_Witness ==
    /\ computedWith.done
    /\ \E u \in UserIds :
          /\ TimesOf(computedFrom, u) = {computedWith.now - MS_7D, computedWith.now - MS_24H}
          /\ \E v \in UserIds \ {u} :
                TimesOf(computedFrom, v)
                    = {computedWith.now - 648000000, computedWith.now - 3600000}
    /\ metrics.churnRate = 500

\* The first_visit times of an identity, and its times under another name.
FirstVisitsOf(rows, uid) ==
    {rows[i].created_at :
        i \in {j \in DOMAIN rows : /\ rows[j].user_pseudo_id = uid
                                   /\ rows[j].event_name = "first_visit"}}
OtherTimesOf(rows, uid) ==
    {rows[i].created_at :
        i \in {j \in DOMAIN rows : /\ rows[j].user_pseudo_id = uid
                                   /\ rows[j].event_name # "first_visit"}}
Earliest(S) == CHOOSE x \in S : \A y \in S : x <= y

CountRated(rows, rating) == Cardinality({i \in DOMAIN rows : rows[i].rating = rating})

\* C15: npsScore is (happyCount - sadCount) / totalFeedback * 100 rounded to
\* the nearest integer, the fractions being of all feedback rows whatever
\* their rating, and 0 without feedback; npsThresholdMet is true exactly when
\* npsScore > 40 (50 happy, 30 normal, 20 sad: 30 and false).
C15_NpsOverAllFeedback ==
    computedWith.done =>
        LET rows == computedWith.feedback
            n == Len(rows)
            happy == CountRated(rows, "happy")
            sad == CountRated(rows, "sad")
            score == metrics.npsScore
        IN  /\ metrics.totalFeedback = n
            /\ metrics.happyCount = happy
            /\ metrics.sadCount = sad
            /\ metrics.normalCount = CountRated(rows, "normal")
            /\ n = 0 => score = 0
            /\ n > 0 =>
                  /\ (2 * score - 1) * n <= 200 * (happy - sad)
                  /\ 200 * (happy - sad) <= (2 * score + 1) * n
            /\ metrics.npsThresholdMet = (score > 40)
            /\ (happy = 50 /\ sad = 20 /\ n = 100) =>
                  (score = 30 /\ ~metrics.npsThresholdMet)

\* The table of 50 happy, 30 normal and 20 sad rows was computed: 30, and the
\* threshold is not met.
C15_Witness ==
    /\ computedWith.done
    /\ computedWith.feedback = Survey(50, 30, 20)
    /\ metrics.npsScore = 30
    /\ ~metrics.npsThresholdMet

\* The rows whose created_at is a date.
WellFormed(rows) ==
    LET HasDate(e) == e.created_at \notin {NullDate, BadDate}
    IN  SelectSeq(rows, HasDate)

MetricFields == DOMAIN EMPTY_METRICS

\* C16: a row whose created_at is missing or unparseable is skipped: the
\* snapshot is the one the rows with a date alone give, in every field, and
\* every number in it is a number (not NaN).
C16_MalformedRowsAreSkipped ==
    computedWith.done =>
        /\ metrics = computeMetrics(WellFormed(computedFrom), computedWith.feedback,
                                    computedWith.posts, computedWith.now,
                                    NoReorder(WellFormed(computedFrom)))
        /\ \A f \in MetricFields \ {"activationGoalMet", "npsThresholdMet"} :
              metrics[f] # NaN

\* Every input of the last computeMetrics was empty.
ComputedFromNothing ==
    /\ computedWith.done
    /\ computedFrom = <<>>
    /\ computedWith.feedback = <<>>
    /\ computedWith.posts = <<>>

\* C17: computeMetrics on empty events, feedback and posts returns the empty
\* snapshot, every count and rate 0 and both flags false, which is
\* EMPTY_METRICS; it does not raise (no field is NaN).
C17_EmptyInputsGiveEmptyMetrics ==
    ComputedFromNothing =>
        /\ metrics = EMPTY_METRICS
        /\ \A f \in MetricFields \ {"activationGoalMet", "npsThresholdMet"} : metrics[f] = 0
        /\ ~metrics.activationGoalMet
        /\ ~metrics.npsThresholdMet

\* computeMetrics has run on three empty tables.
C17_Witness == ComputedFromNothing /\ events = <<>> /\ metrics.avgSessionLengthMin = 0

\* The rows whose event_name is one the aggregator knows.
Recognized(rows) ==
    LET Known(e) == e.event_name \in KnownEventNames
    IN  SelectSeq(rows, Known)

\* The snapshot of the last inputs with the rows of unknown name left out.
WithoutUnknown ==
    computeMetrics(Recognized(computedFrom), computedWith.feedback, computedWith.posts,
                   computedWith.now, NoReorder(Recognized(computedFrom)))

\* C19 as stated: a row whose event_name is outside the recognized set is
\* ignored: the snapshot computed with it equals the snapshot computed
\* without it.
C19_UnknownEventsAreIgnored ==
    computedWith.done => metrics = WithoutUnknown

\* The fields that depend on the name of a row, on feedback or on posts.
NamedFields ==
    {"totalQrScans", "totalShares", "totalPosts", "totalLikes", "engagementRate",
     "npsScore", "npsThresholdMet", "happyCount", "normalCount", "sadCount",
     "totalFeedback"}

\* C19 as amended: a row of unknown name raises no error and changes no field
\* that depends on the name of a row (QR scans, shares, engagement rate, the
\* identities counted as activated); like every row it counts as activity of
\* its identity, in uniqueVisits and dau.
C19_UnknownEventsCountAsActivityOnly ==
    computedWith.done =>
        /\ \A f \in NamedFields : metrics[f] = WithoutUnknown[f]
        /\ UsersOf(Named(computedFrom, "post_created"))
              = UsersOf(Named(Recognized(computedFrom), "post_created"))
        /\ metrics.uniqueVisits = Cardinality(UsersOf(computedFrom))
        /\ metrics.dau = Cardinality(UsersOf(computedFrom))
        /\ \A f \in MetricFields \ {"activationGoalMet", "npsThresholdMet"} :
              metrics[f] # NaN

\* An identity whose only row has an unknown name, next to a share and a
\* session_start of another: two unique visits, engagement rate 100.0.
C19_Witness ==
    /\ computedWith.done
    /\ \E i \in DOMAIN computedFrom :
          /\ computedFrom[i].event_name \notin KnownEventNames
          /\ \A j \in DOMAIN computedFrom \ {i} :
                computedFrom[j].user_pseudo_id # computedFrom[i].user_pseudo_id
    /\ metrics.uniqueVisits = 2
    /\ metrics.totalShares = 1
    /\ metrics.engagementRate = 1000

\* ----- The three policies together -----
\* The items of the counter store other than the one under key k are as the
\* last call found them.
OnlyChanged(k) == \A j \in STORAGE_KEYS \ {k} : localStorage[j] = last.pre[j]

Predicates ==
    {"getLikesGiven", "remainingLikes", "canLikePost", "canPost", "postsRemaining",
     "canFetch"}

\* C20: recordLike changes only the like map, and in it only the entry of the
\* liked post; recordPost changes only the post-timestamp sequence;
\* recordFetch changes only the last-fetch timestamp; the predicates change
\* nothing in the counter store.
C20_PoliciesAreIndependent ==
    /\ last.op = "recordLike" =>
          /\ OnlyChanged(LIKES)
          /\ \A p \in PostIds \ {last.arg} :
                /\ Given(p) = LikesOf(StoredLikes(last.pre), p)
                /\ p \in DOMAIN StoredLikes(localStorage)
                      <=> p \in DOMAIN StoredLikes(last.pre)
    /\ last.op = "recordPost" => OnlyChanged(POSTS)
    /\ last.op = "recordFetch" => OnlyChanged(LAST_FETCH)
    /\ last.op \in Predicates => localStorage = last.pre

\* recordPost has run on a store that held likes of a post and a last-fetch
\* time, and both are as they were.
C20_Witness ==
    /\ last.op = "recordPost"
    /\ last.pre[LIKES].tag = "json"
    /\ last.pre[LAST_FETCH].tag = "json"
    /\ localStorage[POSTS] # last.pre[POSTS]
    /\ localStorage[LIKES] = last.pre[LIKES]
    /\ localStorage[LAST_FETCH] = last.pre[LAST_FETCH]

\* ----- The analytics provider's claims -----
CallsNamed(name) == {i \in DOMAIN trackCalls : trackCalls[i].event_name = name}
\* The latest mount made a trackEvent call of that name.
LastMountTracked(name) ==
    \E i \in CallsNamed(name) : trackCalls[i].mount = lastMount.n

\* C21: over the mounts of one device first_visit is tracked at most once, by
\* a mount that found no pseudo-identity stored, and a mount that finds none
\* does track it (the test comes before getUserId creates the identity).
C21_FirstVisitTrackedOnce ==
    /\ Cardinality(CallsNamed("first_visit")) <= 1
    /\ \A i \in CallsNamed("first_visit") : trackCalls[i].idBefore = Absent
    /\ lastMount.n > 0 =>
          (LastMountTracked("first_visit") <=> lastMount.idBefore = Absent)

\* A later mount found the identity and tracked no first_visit, the first
\* mount's first_visit being the only one.
C21_Witness ==
    /\ lastMount.n >= 2
    /\ lastMount.idBefore # Absent
    /\ ~LastMountTracked("first_visit")
    /\ \E i \in CallsNamed("first_visit") : trackCalls[i].mount = 1

\* Date.now() of the latest session_start tracked before the latest mount;
\* 0 when there is none.
PreviousSessionStart ==
    LET before == {i \in CallsNamed("session_start") : trackCalls[i].mount < lastMount.n}
    IN  IF before = {} THEN 0
        ELSE trackCalls[CHOOSE i \in before : \A j \in before : j <= i].at

\* C22: any two session_start calls of the device are more than 30 minutes
\* apart; a mount tracks session_start exactly when none was tracked before or
\* the latest one is more than 30 minutes old; and the new timestamp is in the
\* store when session_start is tracked.
C22_SessionStartThrottled ==
    /\ \A i \in CallsNamed("session_start") : \A j \in CallsNamed("session_start") :
          i < j => trackCalls[j].at - trackCalls[i].at > SESSION_GAP_MS
    /\ lastMount.n > 0 =>
          (LastMountTracked("session_start")
              <=> \/ PreviousSessionStart = 0
                  \/ lastMount.at - PreviousSessionStart > SESSION_GAP_MS)
    /\ \A i \in CallsNamed("session_start") :
          /\ trackCalls[i].sessionStored # Absent
          /\ parseInt(trackCalls[i].sessionStored.val) = trackCalls[i].at

\* A mount exactly 30 minutes after the latest session_start tracked none, and
\* two were tracked before it.
C22_Witness ==
    /\ Cardinality(CallsNamed("session_start")) >= 2
    /\ lastMount.at - PreviousSessionStart = SESSION_GAP_MS
    /\ ~LastMountTracked("session_start")

\* ----- The identity provider's claims -----
C23_OneIdentifier ==
    /\ Cardinality(returnedIds) <= 1
    /\ returnedIds # {} =>
          /\ pseudoIdItem # Absent
          /\ returnedIds = {pseudoIdItem.val}
          /\ ~isFirstVisit(pseudoIdItem)
C23_NoRewrite ==
    returnedIds # {} =>
        /\ idWrites' = idWrites
        /\ pseudoIdItem' = pseudoIdItem
        /\ lastMount'.n > lastMount.n => ~lastMount'.isNew

\* C23: once getUserId has returned an identifier, every later call returns
\* the same one and makes no setItem, and isFirstVisit is false from then on.
C23_GetUserIdStable == []C23_OneIdentifier /\ [][C23_NoRewrite]_vars

\* getUserId has been called at several mounts and by several trackEvent
\* calls, and wrote once.
C23_Witness ==
    /\ mounts >= 2
    /\ Len(trackCalls) >= 3
    /\ idWrites = 1
    /\ Cardinality(returnedIds) = 1

\* ----- The create-post page's order of effects -----
\* The ways a submission ends without a post.
Failures == {"empty", "denied", "uploadFailed", "insertFailed"}

\* A step that records a post or writes the event is the successful answer of
\* the insert of a submission that canPost allowed.
C24_OnlyAfterInsert ==
    (localStorage' # localStorage \/ recorded' # recorded \/ tracked' # tracked) =>
        \E tab \in Tabs :
            /\ pc[tab] = "insert"
            /\ outcome[tab] = "pending"
            /\ outcome'[tab] = "posted"
            /\ inserted' = inserted + 1
            /\ recorded' = Append(recorded, now')
            /\ StoredTimes(localStorage') # <<>>
            /\ StoredTimes(localStorage')[Len(StoredTimes(localStorage'))] = now'
            /\ tracked' = tracked + 1

\* A step in which a submission ends without a post changes neither the
\* stored timestamps nor the events.
C24_FailureChangesNothing ==
    \A tab \in Tabs :
        (outcome'[tab] # outcome[tab] /\ outcome'[tab] \in Failures) =>
            /\ localStorage' = localStorage
            /\ recorded' = recorded
            /\ tracked' = tracked

\* C24: handleSubmit calls recordPost and tracks post_created only after
\* canPost allowed that submission and its insert succeeded; a submission with
\* empty content, denied by the quota, or whose upload or insert fails leaves
\* the stored timestamps unchanged and writes no event.
C24_RecordOnlyAfterInsert ==
    [][C24_OnlyAfterInsert /\ C24_FailureChangesNothing]_vars

\* One tab has posted, the other's insert has failed, and one timestamp and
\* one event were written.
C24_Witness ==
    \E tab \in Tabs : \E other \in Tabs \ {tab} :
        /\ outcome[tab] = "posted"
        /\ outcome[other] = "insertFailed"
        /\ Len(StoredTimes(localStorage)) = 1
        /\ tracked = 1
        /\ inserted = 1

\* ----- The feed page's claims -----
C25_GuardCoversQueries ==
    /\ Len(queries) <= 1
    /\ queries # <<>> => home.isFetchingRef
C25_NoStartWhileFetching ==
    (Len(queries') > Len(queries) /\ home'.n = home.n) => ~home.isFetchingRef

\* C25: the feed never has two posts queries in flight; isFetchingRef is true
\* whenever one is outstanding, and none is started while it is true.
C25_OneQueryInFlight ==
    []C25_GuardCoversQueries /\ [][C25_NoStartWhileFetching]_vars

\* A refresh denied by the cooldown is the step that sets one more timeout for
\* the cooldown indicator.
RefreshWasDenied == home'.cooldownTimers \ home.cooldownTimers # {}

\* Every fetch that handleRefresh started was allowed by canFetch, had its time
\* stored as the last fetch when it started, and started at least 3 seconds
\* after every fetch before it, the load's included.
C26_RefreshesApart ==
    \A j \in DOMAIN fetchStarts :
        fetchStarts[j].by = "refresh" =>
            /\ fetchStarts[j].allowed
            /\ fetchStarts[j].stored = Json(fetchStarts[j].at)
            /\ \A i \in 1..(j - 1) :
                  fetchStarts[j].at - fetchStarts[i].at >= FETCH_COOLDOWN_MS
C26_DeniedChangesNothing ==
    RefreshWasDenied =>
        /\ localStorage' = localStorage
        /\ queries' = queries
        /\ fetchStarts' = fetchStarts
        /\ home'.pages = home.pages
        /\ home'.pageRef = home.pageRef
        /\ home'.hasMore = home.hasMore
        /\ home'.loading = home.loading

\* C26: a refresh refetches only when canFetch() is true and records the fetch
\* before starting it, so the fetches of two refreshes, and of the load and a
\* refresh after it, are at least 3 seconds apart; a refresh denied by the
\* cooldown changes neither the last-fetch timestamp nor the feed.
C26_RefreshRespectsCooldown ==
    []C26_RefreshesApart /\ [][C26_DeniedChangesNothing]_vars

\* A refresh started exactly 3 seconds after the load, another was denied, and
\* the feed holds the rows of a query.
C26_Witness ==
    /\ Len(fetchStarts) = 2
    /\ fetchStarts[1].by = "load"
    /\ fetchStarts[2].by = "refresh"
    /\ fetchStarts[2].at - fetchStarts[1].at = FETCH_COOLDOWN_MS
    /\ home.refreshCooldown
    /\ home.pages # <<>>

\* C27: in one browser session the feedback modal opens at most once, and
\* never before the feed page has been mounted for 5 minutes.
C27_SurveyOncePerSession ==
    /\ Len(shows) <= 1
    /\ \A i \in DOMAIN shows : shows[i].at - shows[i].mountedAt >= FEEDBACK_DELAY_MS

\* ----- The post quota's wait and its remaining count -----
\* C28: a denial of canPost carries a wait s with 1 <= s <= 600, and with no
\* recordPost in between canPost allows s seconds after the denial.
C28_DenialCarriesSufficientWait ==
    (last.op = "canPost" /\ ~last.ret.allowed) =>
        LET s == last.ret.waitSeconds
            later == last.t2 + 1000 * s
        IN  /\ 1 <= s
            /\ s <= 600
            /\ canPost(last.pre, Browser, later, later).allowed

\* C29: at one instant canPost().allowed is true exactly when postsRemaining()
\* is above 0, and postsRemaining() is 3 less the number of stored timestamps
\* inside the current 10-minute window, held at 0, so between 0 and 3.
C29_RemainingMatchesCanPost ==
    LET times == StoredTimes(localStorage)
        inside == {i \in DOMAIN times : now - times[i] < POST_WINDOW_MS}
        remaining == postsRemaining(localStorage, Browser, now)
    IN  /\ remaining = (IF Cardinality(inside) >= 3 THEN 0 ELSE 3 - Cardinality(inside))
        /\ 0 <= remaining
        /\ remaining <= 3
        /\ \A t2 \in LaterRead(now) :
              canPost(localStorage, Browser, now, t2).allowed <=> remaining > 0

\* Four stored timestamps are inside the window, one more than the limit, and
\* postsRemaining has just answered 0.
C29_Witness ==
    /\ last.op = "postsRemaining"
    /\ last.t1 = now
    /\ last.ret = 0
    /\ Cardinality({i \in DOMAIN StoredTimes(localStorage) :
                       now - StoredTimes(localStorage)[i] < POST_WINDOW_MS}) = 4
    /\ ~canPost(localStorage, Browser, now, now).allowed

\* ----- The ranges of the snapshot -----
\* C30: for well-formed rows, dau <= uniqueVisits; activationRate, churnRate
\* and day1Retention lie in [0, 100] (held in tenths); npsScore lies in
\* [-100, 100]; the three rating counts sum to at most totalFeedback; and
\* avgSessionLengthMin is not negative.
C30_SnapshotRanges ==
    /\ metrics.dau <= metrics.uniqueVisits
    /\ 0 <= metrics.activationRate /\ metrics.activationRate <= 1000
    /\ 0 <= metrics.churnRate /\ metrics.churnRate <= 1000
    /\ 0 <= metrics.day1Retention /\ metrics.day1Retention <= 1000
    /\ -100 <= metrics.npsScore /\ metrics.npsScore <= 100
    /\ metrics.happyCount + metrics.normalCount + metrics.sadCount
          <= metrics.totalFeedback
    /\ metrics.avgSessionLengthMin >= 0

\* A snapshot of two users, one gone since a week ago (churn 100.0), one
\* active in the last day, and one feedback row whose rating is none of the
\* three.
C30_Witness ==
    /\ computedWith.done
    /\ metrics.uniqueVisits = 2
    /\ metrics.dau = 1
    /\ metrics.churnRate = 1000
    /\ metrics.totalFeedback = 1
    /\ metrics.happyCount + metrics.normalCount + metrics.sadCount = 0

====
